---- MODULE Spec2Model ----
(***************************************************************************)
(* Model of the summarization pipeline of summybot                         *)
(* (src/src/summarizer.py, class ConversationSummarizer).                  *)
(*                                                                         *)
(* A Python str is modelled as a sequence of one-character strings, so     *)
(* that lengths, prefixes, splitting and regular-expression substitution   *)
(* are computed character by character as the code computes them.  A       *)
(* non-ASCII code point of the source is written as one element named      *)
(* after its code point, e.g. "u00F0".                                     *)
(***************************************************************************)
EXTENDS Integers, Sequences, FiniteSets, TLC

(***************************************************************************)
(* Bounds of the model.                                                    *)
(***************************************************************************)
\* the latest time a message of the catalogue may carry, and the latest "now"
MaxTime == 8
\* longest list handed to _group_messages_by_context in arbitrary order
MaxGroupMsgs == 3

(***************************************************************************)
(* Program constants.                                                      *)
(***************************************************************************)
\* summarizer.py:252   if len(messages) < 3
MinMessages == 3
\* summarizer.py:258   if len(conversation_text) < 100
MinTextLen == 100
\* summarizer.py:305   if len(content.strip()) < 10
MinContentLen == 10
\* summarizer.py:453   if len(lines) <= 5
BriefMaxLines == 5
\* summarizer.py:350/396   text[:3500]
PromptTextLen == 3500
\* summarizer.py:352   max_tokens = 300
FocusMaxTokens == 300
\* summarizer.py:398   max_tokens = 400
DigestMaxTokens == 400
\* summarizer.py:413   max_length = 800
LocalMaxLength == 800
\* summarizer.py:417   if len(lines) > 20
LocalSampleLines == 20

(***************************************************************************)
(* Strings.                                                                *)
(***************************************************************************)
Chars(s) == [i \in 1..Len(s) |-> SubSeq(s, i, i)]

Min(S) == CHOOSE x \in S : \A y \in S : x <= y

\* s[:n]
Take(s, n) == SubSeq(s, 1, IF n < Len(s) THEN n ELSE Len(s))

\* s[n:]
Drop(s, n) == SubSeq(s, n + 1, Len(s))

\* s[i-1:].startswith(p), i counted from 1
StartsWithAt(s, i, p) ==
    /\ i >= 1
    /\ i + Len(p) - 1 <= Len(s)
    /\ SubSeq(s, i, i + Len(p) - 1) = p

\* str.startswith
StartsWith(s, p) == StartsWithAt(s, 1, p)

\* p in s
Contains(s, p) == \E i \in 1..(Len(s) + 1) : StartsWithAt(s, i, p)

\* str.isspace for one character
Whitespace == {" ", "\n", "\t", "\r"}

Max(S) == CHOOSE x \in S : \A y \in S : x >= y

\* str.lstrip() / str.rstrip()
LStrip(s) ==
    LET keep == {i \in 1..Len(s) : s[i] \notin Whitespace}
    IN  IF keep = {} THEN <<>> ELSE SubSeq(s, Min(keep), Len(s))

RStrip(s) ==
    LET keep == {i \in 1..Len(s) : s[i] \notin Whitespace}
    IN  IF keep = {} THEN <<>> ELSE SubSeq(s, 1, Max(keep))

\* str.strip()
Strip(s) == RStrip(LStrip(s))

\* s.find(c, i - 1) + 1 for a one-character c: the first index >= i that
\* holds c, or 0
FindChar(s, c, i) ==
    LET hits == {j \in i..Len(s) : s[j] = c}
    IN  IF hits = {} THEN 0 ELSE Min(hits)

\* str.split(c) for a one-character separator c: always at least one part
RECURSIVE Split(_, _)
Split(s, c) ==
    LET i == FindChar(s, c, 1)
    IN  IF i = 0
        THEN <<s>>
        ELSE <<SubSeq(s, 1, i - 1)>> \o Split(Drop(s, i), c)

\* sep.join(parts)
RECURSIVE Join(_, _)
Join(parts, sep) ==
    IF parts = <<>> THEN <<>>
    ELSE IF Len(parts) = 1 THEN parts[1]
    ELSE parts[1] \o sep \o Join(Tail(parts), sep)

\* str.replace(old, new), old non-empty: leftmost non-overlapping occurrences
RECURSIVE ReplaceAll(_, _, _)
ReplaceAll(s, old, new) ==
    LET hits == {j \in 1..Len(s) : StartsWithAt(s, j, old)}
    IN  IF hits = {}
        THEN s
        ELSE SubSeq(s, 1, Min(hits) - 1) \o new
             \o ReplaceAll(Drop(s, Min(hits) + Len(old) - 1), old, new)

LowerLetters == Chars("abcdefghijklmnopqrstuvwxyz")
UpperLetters == Chars("ABCDEFGHIJKLMNOPQRSTUVWXYZ")
Digits == Chars("0123456789")

\* the emphasis marker
BOLD == Chars("**")

IndexIn(c, alphabet) ==
    LET hits == {i \in 1..Len(alphabet) : alphabet[i] = c}
    IN  IF hits = {} THEN 0 ELSE Min(hits)

LowerSet == {LowerLetters[i] : i \in 1..Len(LowerLetters)}
UpperSet == {UpperLetters[i] : i \in 1..Len(UpperLetters)}
DigitSet == {Digits[i] : i \in 1..Len(Digits)}
UpperOf == [c \in LowerSet |-> UpperLetters[IndexIn(c, LowerLetters)]]
LowerOf == [c \in UpperSet |-> LowerLetters[IndexIn(c, UpperLetters)]]
DigitValue == [c \in DigitSet |-> IndexIn(c, Digits) - 1]

IsDigit(c) == c \in DigitSet
IsAlpha(c) == c \in LowerSet \/ c \in UpperSet

\* str.upper() / str.lower(), character by character
UpperChar(c) == IF c \in LowerSet THEN UpperOf[c] ELSE c
LowerChar(c) == IF c \in UpperSet THEN LowerOf[c] ELSE c
Upper(s) == [i \in 1..Len(s) |-> UpperChar(s[i])]
Lower(s) == [i \in 1..Len(s) |-> LowerChar(s[i])]

\* str(n) for n >= 0
RECURSIVE DecStr(_)
DecStr(n) ==
    IF n < 10 THEN <<Digits[n + 1]>>
    ELSE DecStr(n \div 10) \o <<Digits[(n % 10) + 1]>>

\* int(digits)
RECURSIVE ParseInt(_)
ParseInt(ds) ==
    IF ds = <<>> THEN 0
    ELSE 10 * ParseInt(SubSeq(ds, 1, Len(ds) - 1)) + DigitValue[ds[Len(ds)]]

(***************************************************************************)
(* The messages the collector can hand over.  A message is the record of   *)
(* the discord.Message fields the summarizer reads: channel.name,          *)
(* author.display_name, author.bot, created_at (in hours) and content.     *)
(***************************************************************************)
Message(ch, author, t, text) ==
    [channel |-> ch, author |-> Chars(author), created_at |-> t, content |-> Chars(text),
     bot |-> FALSE]

\* a message whose author is a bot account
BotMessage(ch, author, t, text) ==
    [channel |-> ch, author |-> Chars(author), created_at |-> t, content |-> Chars(text),
     bot |-> TRUE]

Catalogue ==
    << Message("general", "Matt", 1, "what did you think"),
       Message("general", "Matt", 2, "totally loved it"),
       Message("general", "Emma", 3, "I finished the book last night"),
       Message("general", "Emma", 3, "the ending was great"),
       Message("general", "Emma", 5, "same time next week"),
       Message("general", "Matt", 6, "bring snacks\nand the sequel"),
       Message("random", "doobiegirl", 1, "  <@42> said ||the butler did it|| in <#7>  "),
       Message("random", "annbland", 2, "anyone up for a movie night on friday"),
       Message("random", "doobiegirl", 4, "yes count me in, I will bring popcorn"),
       Message("random", "annbland", 7, "k"),
       Message("random", "doobiegirl", 8, "k"),
       Message("random", "annbland", 8, "k"),
       Message("books", "Emma", 1, "has anyone started the new mystery novel yet"),
       Message("books", "Matt", 2, "yes, and ||the butler\ndid it|| so be warned"),
       Message("books", "Emma", 7, "please tag your spoilers next time, thanks"),
       BotMessage("general", "SummyBot", 3, "here is the daily summary for today"),
       BotMessage("random", "MEE6", 2, "doobiegirl just reached level five") >>

MsgIds == 1..Len(Catalogue)
Msg(id) == Catalogue[id]

\* message.guild.get_member(id) / get_channel(id): the ids the guild knows,
\* with the member's display name and the channel's name
GuildMemberIds == {42}
GuildMemberName(id) == Chars("Emma")
GuildChannelIds == {7}
GuildChannelName(id) == Chars("general")

(***************************************************************************)
(* _group_messages_by_context                                              *)
(***************************************************************************)
\* list.sort(key=created_at) is stable: a message goes after every message
\* already placed whose key is not greater
InsertByCreatedAt(sorted, id) ==
    LET k == Cardinality({i \in 1..Len(sorted) :
                            Msg(sorted[i]).created_at <= Msg(id).created_at})
    IN  SubSeq(sorted, 1, k) \o <<id>> \o SubSeq(sorted, k + 1, Len(sorted))

\* a variant of the grouping without the sort of line 204
Unsorted(ms) == ms

RECURSIVE SortByCreatedAt(_)
SortByCreatedAt(ms) ==
    IF ms = <<>> THEN <<>>
    ELSE InsertByCreatedAt(SortByCreatedAt(SubSeq(ms, 1, Len(ms) - 1)), ms[Len(ms)])

\* position of channel ch in the dict (insertion order), 0 if it has no key
BucketIndex(conversations, ch) ==
    LET hits == {i \in 1..Len(conversations) : conversations[i].channel_name = ch}
    IN  IF hits = {} THEN 0 ELSE Min(hits)

\* a variant that puts the bucket of a new channel before the others
AddToBucketInFront(conversations, id) ==
    LET ch == Msg(id).channel
        withKey == IF BucketIndex(conversations, ch) = 0
                   THEN <<[channel_name |-> ch, messages |-> <<>>, participants |-> {}]>>
                        \o conversations
                   ELSE conversations
        i == BucketIndex(withKey, ch)
    IN  [withKey EXCEPT ![i].messages = Append(@, id),
                        ![i].participants = @ \cup {Msg(id).author}]

\* one pass of the for loop of lines 208-224 (topics are computed and
\* never read by this class; they are left out)
AddToBucket(conversations, id) ==
    LET ch == Msg(id).channel
        withKey == IF BucketIndex(conversations, ch) = 0
                   THEN Append(conversations,
                               [channel_name |-> ch, messages |-> <<>>, participants |-> {}])
                   ELSE conversations
        i == BucketIndex(withKey, ch)
    IN  [withKey EXCEPT ![i].messages = Append(@, id),
                        ![i].participants = @ \cup {Msg(id).author}]

RECURSIVE GroupLoop(_, _)
GroupLoop(ms, conversations) ==
    IF ms = <<>> THEN conversations
    ELSE GroupLoop(Tail(ms), AddToBucket(conversations, Head(ms)))

\* the dict returned for the (already sorted) list
GroupMessagesByContext(sorted) == GroupLoop(sorted, <<>>)

(***************************************************************************)
(* _prepare_conversation_text                                              *)
(***************************************************************************)
SPOILER == Chars("[SPOILER CONTENT]")

\* r'\|\|(.+?)\|\|' at index i: the index of the last character matched,
\* or 0.  '.' does not match a newline; the lazy group takes the shortest
\* content.
SpoilerEnd(s, i) ==
    IF StartsWithAt(s, i, Chars("||"))
    THEN LET js == {j \in (i + 3)..(Len(s) - 1) :
                      /\ s[j] = "|" /\ s[j + 1] = "|"
                      /\ \A k \in (i + 2)..(j - 1) : s[k] # "\n"}
         IN  IF js = {} THEN 0 ELSE Min(js) + 1
    ELSE 0

\* re.sub(r'\|\|(.+?)\|\|', '[SPOILER CONTENT]', s), from index i on
RECURSIVE SubSpoilers(_, _)
SubSpoilers(s, i) ==
    LET starts == {j \in i..Len(s) : SpoilerEnd(s, j) > 0}
    IN  IF starts = {}
        THEN SubSeq(s, i, Len(s))
        ELSE SubSeq(s, i, Min(starts) - 1) \o SPOILER
             \o SubSpoilers(s, SpoilerEnd(s, Min(starts)) + 1)

\* a match of  open \d+ >  at index i: [end, id], end = 0 if none
IdToken(s, i, open) ==
    IF StartsWithAt(s, i, open)
    THEN LET stops == {j \in (i + Len(open))..Len(s) : ~IsDigit(s[j])}
             e == IF stops = {} THEN Len(s) + 1 ELSE Min(stops)
         IN  IF e > i + Len(open) /\ e <= Len(s) /\ s[e] = ">"
             THEN [end |-> e, id |-> ParseInt(SubSeq(s, i + Len(open), e - 1))]
             ELSE [end |-> 0, id |-> 0]
    ELSE [end |-> 0, id |-> 0]

\* r'<@!?(\d+)>' at index i
UserMention(s, i) ==
    IF IdToken(s, i, Chars("<@!")).end > 0 THEN IdToken(s, i, Chars("<@!"))
    ELSE IdToken(s, i, Chars("<@"))

\* line 299: mentions become the member's display name, or 'user'
RECURSIVE SubUserMentions(_, _)
SubUserMentions(s, i) ==
    LET starts == {j \in i..Len(s) : UserMention(s, j).end > 0}
    IN  IF starts = {}
        THEN SubSeq(s, i, Len(s))
        ELSE LET m == UserMention(s, Min(starts))
             IN  SubSeq(s, i, Min(starts) - 1)
                 \o (IF m.id \in GuildMemberIds THEN GuildMemberName(m.id) ELSE Chars("user"))
                 \o SubUserMentions(s, m.end + 1)

\* line 302: channel mentions become '#' + the channel's name, or '#channel'
RECURSIVE SubChannelMentions(_, _)
SubChannelMentions(s, i) ==
    LET starts == {j \in i..Len(s) : IdToken(s, j, Chars("<#")).end > 0}
    IN  IF starts = {}
        THEN SubSeq(s, i, Len(s))
        ELSE LET m == IdToken(s, Min(starts), Chars("<#"))
             IN  SubSeq(s, i, Min(starts) - 1) \o <<"#">>
                 \o (IF m.id \in GuildChannelIds THEN GuildChannelName(m.id)
                     ELSE Chars("channel"))
                 \o SubChannelMentions(s, m.end + 1)

\* lines 293-302: the cleaned content of one message
CleanText(content) ==
    SubChannelMentions(SubUserMentions(SubSpoilers(content, 1), 1), 1)

CleanContent(id) == CleanText(Msg(id).content)

\* line 305: messages that produce no line
Skipped(id) ==
    \/ Len(Strip(CleanContent(id))) < MinContentLen
    \/ StartsWith(CleanContent(id), <<"!">>)

\* line 309
ConversationLine(id) == Msg(id).author \o Chars(": ") \o Strip(CleanContent(id))

\* the lines of one message: none if it is skipped, else one
LinesOf(id) == IF Skipped(id) THEN <<>> ELSE <<ConversationLine(id)>>

\* LinesOf, tabulated over the catalogue
PreparedLines == [id \in MsgIds |-> LinesOf(id)]

RECURSIVE ConversationLines(_)
ConversationLines(ms) ==
    IF ms = <<>> THEN <<>>
    ELSE PreparedLines[Head(ms)] \o ConversationLines(Tail(ms))

PrepareConversationText(ms) == Join(ConversationLines(ms), <<"\n">>)

(***************************************************************************)
(* _simple_extractive_summary                                              *)
(***************************************************************************)
Returned(v) == [raised |-> FALSE, value |-> v]
Raised(e) == [raised |-> TRUE, value |-> e]

BRIEF == Chars("Brief conversation with limited content.")

\* a variant whose short-text test is len(lines) < 5
SimpleExtractiveSummaryBelow(text) ==
    LET lines == Split(text, "\n")
    IN  IF Len(lines) < BriefMaxLines
        THEN Returned(BRIEF)
        ELSE Raised("UnboundLocalError")

\* The local participant_text is assigned nowhere in the function: line 475
\* (participant_text += ...) reads it when there are more than 3
\* participants, line 479 reads it otherwise.  Either read raises
\* UnboundLocalError, so no template sentence is ever built.
SimpleExtractiveSummary(text) ==
    LET lines == Split(text, "\n")
    IN  IF Len(lines) <= BriefMaxLines
        THEN Returned(BRIEF)
        ELSE Raised("UnboundLocalError")

(***************************************************************************)
(* Regular-expression character classes.                                   *)
(***************************************************************************)
\* [A-Za-z0-9_]
IsAsciiWord(c) == IsAlpha(c) \/ IsDigit(c) \/ c = "_"

\* the non-ASCII code points of the source that \w matches
WordCodePoints ==
    {"u00B5", "u00B9", "u00BC", "u00E2", "u00F0", "u0152", "u0160", "u0178",
     "u02C6", "u00EF", "u00BD"}

\* \w
IsWord(c) == IsAsciiWord(c) \/ c \in WordCodePoints

\* \b before the character at index i (1..Len(s)+1)
WordBoundary(s, i) ==
    LET before == i > 1 /\ IsWord(s[i - 1])
        after == i <= Len(s) /\ IsWord(s[i])
    IN  before # after

\* the character class of lines 98 and 102
EmojiClass ==
    {"u00A4", "u00A6", "u00A8", "u00A9", "u00AC", "u00B5", "u00B7", "u00B9",
     "u00BB", "u00BC", "u00E2", "u00F0", "u0152", "u0160", "u0178", "u02C6",
     "u2013", "u201E", "u2039", "u203A", "u20AC"}


\* the character classes of the patterns
InClass(cls, c) ==
    CASE cls = "[A-Za-z0-9_]" -> IsAsciiWord(c)
      [] cls = "[A-Za-z0-9_!]" -> IsAsciiWord(c) \/ c = "!"
      [] cls = "[emoji]" -> c \in EmojiClass
      [] cls = "\\s" -> c \in Whitespace
      [] cls = "[^*]" -> c # "*"

\* the index after the longest run of characters of class cls from
\* index i on
RunEnd(s, i, cls) ==
    LET stops == {j \in i..Len(s) : ~InClass(cls, s[j])}
    IN  IF stops # {} THEN Min(stops)
        ELSE IF i > Len(s) THEN i ELSE Len(s) + 1

(***************************************************************************)
(* _clean_summary_text                                                     *)
(***************************************************************************)
\* lines 149-153: an ALL-CAPS rendering of a participant goes back to the
\* participant's own spelling
RECURSIVE FixCaps(_, _)
FixCaps(cleaned, participants) ==
    IF participants = <<>> THEN cleaned
    ELSE LET participant == Head(participants)
             caps_version == Upper(participant)
         IN  FixCaps(IF Contains(cleaned, caps_version) /\ caps_version # participant
                     THEN ReplaceAll(cleaned, caps_version, participant)
                     ELSE cleaned,
                     Tail(participants))

\* r'\b([A-Za-z0-9_]+)\*\*(?!\*)' at index i: the index of the last
\* character matched, or 0
BrokenBoldEnd(s, i) ==
    LET e == RunEnd(s, i, "[A-Za-z0-9_]")
    IN  IF /\ e > i
           /\ WordBoundary(s, i)
           /\ StartsWithAt(s, e, BOLD)
           /\ ~(e + 2 <= Len(s) /\ s[e + 2] = "*")
        THEN e + 1
        ELSE 0

\* fix_bold, lines 161-167
FixBold(word, participants) ==
    LET hits == {k \in 1..Len(participants) : Lower(participants[k]) = Lower(word)}
    IN  IF hits = {}
        THEN word \o BOLD
        ELSE BOLD \o participants[Min(hits)] \o BOLD

RECURSIVE SubBrokenBold(_, _, _)
SubBrokenBold(s, i, participants) ==
    LET starts == {j \in i..Len(s) : BrokenBoldEnd(s, j) > 0}
    IN  IF starts = {}
        THEN SubSeq(s, i, Len(s))
        ELSE LET e == BrokenBoldEnd(s, Min(starts))
             IN  SubSeq(s, i, Min(starts) - 1)
                 \o FixBold(SubSeq(s, Min(starts), e - 2), participants)
                 \o SubBrokenBold(s, e + 1, participants)

CleanSummaryText(summary, participants) ==
    SubBrokenBold(FixCaps(summary, participants), 1, participants)

(***************************************************************************)
(* _format_usernames_with_colors                                           *)
(***************************************************************************)
\* user_emojis, lines 78-90, in the dict's order
UserEmojis ==
    << [name |-> Chars("TantalizingTangerine"), emoji |-> <<"u00F0", "u0178", "u0160">>],
       [name |-> Chars("annbland"), emoji |-> <<"u00F0", "u0178", "u201E">>],
       [name |-> Chars("HelpfulKitten"),
        emoji |-> <<"u00F0", "u0178", "u02C6", "u00E2", "u20AC", "u00E2", "u00AC", "u203A">>],
       [name |-> Chars("Emma"), emoji |-> <<"u00F0", "u0178", "u00A9", "u00B7">>],
       [name |-> Chars("Theris Valayrin"), emoji |-> <<"u00F0", "u0178", "u2013", "u00A4">>],
       [name |-> Chars("doobiegirl"), emoji |-> <<"u00F0", "u0178", "u00A9", "u00B5">>],
       [name |-> Chars("Matt"), emoji |-> <<"u00F0", "u0178", "u0178", "u00A6">>],
       [name |-> Chars("liliesanddaisies"), emoji |-> <<"u00F0", "u0178", "u0152", "u00B9">>],
       [name |-> Chars("myxdvz"), emoji |-> <<"u00F0", "u0178", "u00A8">>],
       [name |-> Chars("bee!"), emoji |-> <<"u00F0", "u0178">>],
       [name |-> Chars("bluecupgreenspoon"), emoji |-> <<"u00F0", "u0178", "u00A6", "u2039">>] >>

\* emoji_bold_pattern at index i: [start of group 1, index after group 1,
\* index of the last character matched], or end = 0
EmojiBoldMatch(s, i) ==
    LET a == RunEnd(s, i, "[emoji]")
        b == RunEnd(s, a, "\\s")
        c == RunEnd(s, b + 2, "[^*]")
    IN  IF /\ a > i
           /\ StartsWithAt(s, b, BOLD)
           /\ c > b + 2
           /\ StartsWithAt(s, c, BOLD)
        THEN [from |-> b + 2, to |-> c - 1, end |-> c + 1]
        ELSE [from |-> 0, to |-> 0, end |-> 0]

RECURSIVE SubEmojiBold(_, _)
SubEmojiBold(s, i) ==
    LET starts == {j \in i..Len(s) : EmojiBoldMatch(s, j).end > 0}
    IN  IF starts = {}
        THEN SubSeq(s, i, Len(s))
        ELSE LET m == EmojiBoldMatch(s, Min(starts))
             IN  SubSeq(s, i, Min(starts) - 1) \o SubSeq(s, m.from, m.to)
                 \o SubEmojiBold(s, m.end + 1)

\* emoji_plain_pattern at index i
EmojiPlainMatch(s, i) ==
    LET a == RunEnd(s, i, "[emoji]")
        b == RunEnd(s, a, "\\s")
        c == RunEnd(s, b, "[A-Za-z0-9_!]")
    IN  IF a > i /\ b > a /\ c > b
        THEN [from |-> b, to |-> c - 1, end |-> c - 1]
        ELSE [from |-> 0, to |-> 0, end |-> 0]

RECURSIVE SubEmojiPlain(_, _)
SubEmojiPlain(s, i) ==
    LET starts == {j \in i..Len(s) : EmojiPlainMatch(s, j).end > 0}
    IN  IF starts = {}
        THEN SubSeq(s, i, Len(s))
        ELSE LET m == EmojiPlainMatch(s, Min(starts))
             IN  SubSeq(s, i, Min(starts) - 1) \o SubSeq(s, m.from, m.to)
                 \o SubEmojiPlain(s, m.end + 1)

\* lines 114-126: the participant's emoji, <<>> when none matches
FindEmoji(participant) ==
    LET exact == {k \in 1..Len(UserEmojis) : UserEmojis[k].name = participant}
        loose == {k \in 1..Len(UserEmojis) :
                    \/ Lower(UserEmojis[k].name) = Lower(participant)
                    \/ Contains(Lower(participant), Lower(UserEmojis[k].name))
                    \/ Contains(Lower(UserEmojis[k].name), Lower(participant))}
    IN  IF exact # {} THEN UserEmojis[Min(exact)].emoji
        ELSE IF loose # {} THEN UserEmojis[Min(loose)].emoji
        ELSE <<>>

\* f"{emoji} **{participant}**"
Decorated(emoji, participant) ==
    emoji \o <<" ">> \o BOLD \o participant \o BOLD

\* r'\b' + re.escape(participant) + r'\b' matches at index i
PlainNameAt(s, i, participant) ==
    /\ StartsWithAt(s, i, participant)
    /\ WordBoundary(s, i)
    /\ WordBoundary(s, i + Len(participant))

\* re.sub(r'\b' + re.escape(participant) + r'\b', decorated, s), from index i on
RECURSIVE SubPlainName(_, _, _, _)
SubPlainName(s, i, participant, decorated) ==
    LET starts == {j \in i..Len(s) : PlainNameAt(s, j, participant)}
    IN  IF starts = {}
        THEN SubSeq(s, i, Len(s))
        ELSE SubSeq(s, i, Min(starts) - 1) \o decorated
             \o SubPlainName(s, Min(starts) + Len(participant), participant, decorated)

\* the loop of lines 108-140; done is formatted_participants
RECURSIVE FormatLoop(_, _, _)
FormatLoop(formatted_text, participants, done) ==
    IF participants = <<>> THEN formatted_text
    ELSE LET participant == Head(participants)
             emoji == FindEmoji(participant)
             bold == BOLD \o participant \o BOLD
         IN  IF participant \in done \/ emoji = <<>>
             THEN FormatLoop(formatted_text, Tail(participants), done)
             ELSE IF Contains(formatted_text, bold)
             THEN FormatLoop(ReplaceAll(formatted_text, bold, Decorated(emoji, participant)),
                             Tail(participants), done \cup {participant})
             ELSE IF Contains(formatted_text, participant)
             THEN FormatLoop(SubPlainName(formatted_text, 1, participant,
                                          Decorated(emoji, participant)),
                             Tail(participants), done \cup {participant})
             ELSE FormatLoop(formatted_text, Tail(participants), done)

FormatUsernamesWithColors(text, participants) ==
    FormatLoop(SubEmojiPlain(SubEmojiBold(text, 1), 1), participants, {})

(***************************************************************************)
(* The channel block of lines 277-283 and _combine_summaries.              *)
(***************************************************************************)
BlockRule == [i \in 1..80 |-> IF i % 2 = 1 THEN "u00E2" ELSE "u201D"]
BlockTitle == BOLD \o <<"u00F0", "u0178", "u201C">> \o Chars(" #")
BlockCount == Chars("**\n") \o <<"u00EF", "u00BF", "u00BD">> \o Chars(" **Messages:** ")
BlockSummary == Chars("\n\n**") \o <<"u00F0", "u0178", "u2019", "u00AC">> \o Chars(" Summary:**\n")
BlockEnd == Chars("\n\n") \o BlockRule

\* final_summary: the f-string, then .strip()
ChannelBlock(channel_name, n_messages, formatted_summary) ==
    Strip(BlockTitle \o Chars(channel_name) \o BlockCount \o DecStr(n_messages)
          \o BlockSummary \o formatted_summary \o BlockEnd)

DigestTitle ==
    Chars("# ") \o <<"u00F0", "u0178", "u201C", "u0160">> \o Chars(" Daily Activity Summary\n*")
DigestCount == Chars(" channels had significant activity*\n\n")

\* a variant that wraps a single block as well
CombineSummariesAlwaysWrapped(summaries) ==
    DigestTitle \o DecStr(Len(summaries)) \o DigestCount \o Join(summaries, Chars("\n\n"))

CombineSummaries(summaries) ==
    IF Len(summaries) = 1
    THEN summaries[1]
    ELSE DigestTitle \o DecStr(Len(summaries)) \o DigestCount
         \o Join(summaries, Chars("\n\n"))

(***************************************************************************)
(* The backends.                                                           *)
(***************************************************************************)
\* _summarize_with_openai, lines 339-398: what is sent
RemoteRequest(text, custom_prompt) ==
    [backend |-> "remote",
     mode |-> IF custom_prompt # <<>> THEN "focused" ELSE "digest",
     text |-> Take(text, PromptTextLen),
     max_tokens |-> IF custom_prompt # <<>> THEN FocusMaxTokens ELSE DigestMaxTokens]

\* What chat.completions.create can do: raise (backend unavailable,
\* network, auth, rate limit, timeout), or answer with a message whose
\* content is None or a string.
RemoteOutcomes ==
    { [kind |-> "raise", content |-> <<>>],
      [kind |-> "no_content", content |-> <<>>],
      [kind |-> "content", content |-> Chars(" \n")],
      [kind |-> "content", content |-> Chars(" EMMA and Matt** talked about a book. ")] }

\* line 408: response.choices[0].message.content.strip(); None has no
\* .strip(), which raises AttributeError
RemoteResult(outcome) ==
    CASE outcome.kind = "raise" -> Raised("APIError")
      [] outcome.kind = "no_content" -> Raised("AttributeError")
      [] outcome.kind = "content" -> Returned(Strip(outcome.content))

\* _summarize_with_transformers, lines 413-430: the text handed to the model
LocalExcerpt(text) ==
    LET lines == Split(text, "\n")
        n == Len(lines)
        first_part == SubSeq(lines, 1, (n * 4) \div 10)
        middle_part == SubSeq(lines, (n * 4) \div 10 + 1, (n * 6) \div 10)
        last_part == SubSeq(lines, (n * 6) \div 10 + 1, n)
        sample_lines == Take(first_part, 3) \o Take(middle_part, 2)
                        \o Drop(last_part, IF Len(last_part) > 3 THEN Len(last_part) - 3 ELSE 0)
    IN  IF Len(text) > LocalMaxLength
        THEN IF n > LocalSampleLines
             THEN Join(sample_lines, <<"\n">>)
             ELSE Take(text, LocalMaxLength) \o Chars("...")
        ELSE text

LocalRequest(text) ==
    [backend |-> "local",
     mode |-> "summarization",
     text |-> Chars("Conversation summary: ") \o LocalExcerpt(text),
     max_tokens |-> 0]

\* What the pipeline can do: raise, or return a summary_text.
LocalOutcomes ==
    { [kind |-> "raise", content |-> <<>>],
      [kind |-> "content", content |-> Chars("Conversation summary: ")],
      [kind |-> "content", content |-> Chars("Conversation summary: Emma liked the ending.")] }

\* lines 441-447
LocalResult(outcome) ==
    CASE outcome.kind = "raise" -> Raised("RuntimeError")
      [] outcome.kind = "content" ->
            Returned(IF StartsWith(outcome.content, Chars("Conversation summary:"))
                     THEN Strip(ReplaceAll(outcome.content, Chars("Conversation summary:"), <<>>))
                     ELSE outcome.content)

NoRequest == [backend |-> "none", mode |-> "none", text |-> <<>>, max_tokens |-> 0]

(***************************************************************************)
(* State.                                                                  *)
(***************************************************************************)
VARIABLES
    openai_client,      \* self.openai_client is set
    local_summarizer,   \* self.local_summarizer is set
    messages,           \* the caller's list object (message ids)
    custom_prompt,      \* the focus question; <<>> is None
    pc,                 \* position in summarize_conversations
    conversations,      \* the dict of buckets, in insertion order
    idx,                \* the bucket the for loop of line 183 is at
    conversation_text,  \* the prepared text of that bucket
    summary,            \* what _generate_summary returned for it
    summaries,          \* the list of line 182
    inflight,           \* the backend request being awaited
    calls,              \* the strategies invoked so far, with their outcome
    chan_results,       \* how _summarize_channel_conversations ended, per bucket
    result,             \* how summarize_conversations ended
    args,               \* the arguments of a helper or command called on its own
    embed,              \* the embed a command has built; <<>> is none
    guild_configs,      \* data/guild_configs.json, per guild
    trigger,            \* the daily job or the slash command that is running
    hpc,                \* position in its handler
    dest,               \* where the handler will deliver the digest
    outbox,             \* what has been sent to Discord, and how each send ended
    job,                \* the guild generate_guild_summary is running for
    log,                \* how generate_guild_summary ended, per run; in SpecConfig,
                        \* the Config operations called so far
    handlers            \* the button handlers of a preview that are at an await

vars == <<openai_client, local_summarizer, messages, custom_prompt, pc, conversations,
          idx, conversation_text, summary, summaries, inflight, calls, chan_results,
          result, args, embed, guild_configs, trigger, hpc, dest, outbox, job, log,
          handlers>>

coreVars == <<openai_client, local_summarizer, messages, custom_prompt, pc, conversations,
              idx, conversation_text, summary, summaries, inflight, calls, chan_results,
              result>>

NoEmbed == <<>>
NoTrigger == [command |-> "none", guild |-> 0, channel |-> "", hours |-> 0, now |-> 0,
              question |-> <<>>]

\* the bot, its guilds and its commands
driverVars == <<guild_configs, trigger, hpc, dest, outbox, job, log, handlers>>
\* no job and no command is running
DriverOff ==
    /\ guild_configs = <<>>
    /\ trigger = NoTrigger
    /\ hpc = "off"
    /\ dest = "none"
    /\ outbox = <<>>
    /\ job = 0
    /\ log = <<>>
    /\ handlers = <<>>

\* what lies outside summarize_conversations
hostVars == <<args, embed, driverVars>>
\* nothing outside summarize_conversations is going on
HostIdle == args = <<>> /\ embed = NoEmbed /\ DriverOff

\* channel.history(after=...): the messages of channel ch created after
\* `after` and by `now`, oldest first
RECURSIVE History(_, _, _, _)
History(ch, after, now, id) ==
    IF id > Len(Catalogue) THEN <<>>
    ELSE (IF /\ Msg(id).channel = ch
             /\ Msg(id).created_at > after
             /\ Msg(id).created_at <= now
          THEN <<id>> ELSE <<>>)
         \o History(ch, after, now, id + 1)

\* message.author.bot is false
IsUser(id) == ~Msg(id).bot

\* a variant of collect_daily_messages without the test of line 187
CollectDailyMessagesUnfiltered(ch, after, now) == History(ch, after, now, 1)

\* collect_daily_messages: the messages of the channel's history that no
\* bot wrote
CollectDailyMessages(ch, after, now) == SelectSeq(History(ch, after, now, 1), IsUser)

\* all_messages.extend(messages) over the monitored channels
RECURSIVE Collect(_, _, _)
Collect(monitored, after, now) ==
    IF monitored = <<>> THEN <<>>
    ELSE CollectDailyMessages(Head(monitored), after, now)
         \o Collect(Tail(monitored), after, now)

\* the lists of monitored channels of a guild
MonitoredChannels ==
    {<<>>, <<"general">>, <<"random">>, <<"general", "random">>, <<"random", "general">>,
     <<"random", "books", "general">>}

\* the lists the callers hand to summarize_conversations
InputLists ==
    {Collect(monitored, after, now) :
        monitored \in MonitoredChannels, after \in 0..MaxTime, now \in 0..MaxTime}

Prompts == {<<>>, Chars("who liked it?")}

NO_CONVERSATIONS == Chars("No conversations found for today.")
NO_SIGNIFICANT == Chars("No significant conversations found for today.")

Pending == [state |-> "pending", value |-> <<>>]

Init ==
    /\ openai_client \in BOOLEAN
    /\ local_summarizer \in BOOLEAN
    /\ messages \in InputLists
    /\ custom_prompt = <<>>
    /\ pc = "idle"
    /\ conversations = <<>>
    /\ idx = 0
    /\ conversation_text = <<>>
    /\ summary = <<>>
    /\ summaries = <<>>
    /\ inflight = NoRequest
    /\ calls = <<>>
    /\ chan_results = <<>>
    /\ result = Pending
    /\ HostIdle

(***************************************************************************)
(* summarize_conversations                                                 *)
(***************************************************************************)
\* a variant that prefers the local model to the remote backend
FirstStrategyLocalFirst ==
    IF local_summarizer THEN "local" ELSE IF openai_client THEN "remote" ELSE "extractive"

\* the first strategy _generate_summary turns to, and the one after a
\* failed remote call (lines 317, 325, 333)
FirstStrategy ==
    IF openai_client THEN "remote" ELSE IF local_summarizer THEN "local" ELSE "extractive"
AfterRemoteFailure == IF local_summarizer THEN "local" ELSE "extractive"
AfterLocalFailure == "extractive"

\* a variant of the call without the early return of lines 175-176
CallWithoutEmptyCheck(prompt) ==
    /\ pc = "idle"
    /\ custom_prompt' = prompt
    /\ result' = result
    /\ pc' = "group"
    /\ UNCHANGED <<hostVars, openai_client, local_summarizer, messages, conversations, idx,
                   conversation_text, summary, summaries, inflight, calls, chan_results>>

\* lines 175-176: the call, and its return on an empty list
Call(prompt) ==
    /\ pc = "idle"
    /\ custom_prompt' = prompt
    /\ IF messages = <<>>
       THEN /\ result' = [state |-> "returned", value |-> NO_CONVERSATIONS]
            /\ pc' = "done"
       ELSE /\ result' = result
            /\ pc' = "group"
    /\ UNCHANGED <<hostVars, openai_client, local_summarizer, messages, conversations, idx,
                   conversation_text, summary, summaries, inflight, calls, chan_results>>

\* line 179: _group_messages_by_context sorts the caller's list in place
\* and builds the buckets
Group ==
    /\ pc = "group"
    /\ messages' = SortByCreatedAt(messages)
    /\ conversations' = GroupMessagesByContext(messages')
    /\ calls' = Append(calls, [channel |-> "", strategy |-> "group", outcome |-> "returned"])
    /\ idx' = 1
    /\ pc' = "channel"
    /\ UNCHANGED <<hostVars, openai_client, local_summarizer, custom_prompt, conversation_text,
                   summary, summaries, inflight, chan_results, result>>

ChanResult(gate, generate, outcome, value) ==
    [channel |-> conversations[idx].channel_name, gate |-> gate, generate |-> generate,
     outcome |-> outcome, value |-> value]

\* a variant of the gate that skips only a bucket that is both short of
\* messages and short of text
RejectedIfBoth(n_messages, text) == n_messages < MinMessages /\ Len(text) < MinTextLen

\* lines 252 and 258: the bucket is skipped
Rejected(n_messages, text) == n_messages < MinMessages \/ Len(text) < MinTextLen

\* lines 250-259: the gate of _summarize_channel_conversations
Gate ==
    /\ pc = "channel"
    /\ idx <= Len(conversations)
    /\ LET bucket == conversations[idx]
           text == PrepareConversationText(bucket.messages)
       IN  IF Rejected(Len(bucket.messages), text)
           THEN /\ chan_results' = Append(chan_results,
                                          ChanResult("rejected", "not_called", "None", <<>>))
                /\ idx' = idx + 1
                /\ pc' = "channel"
                /\ conversation_text' = <<>>
           ELSE /\ chan_results' = chan_results
                /\ idx' = idx
                /\ pc' = FirstStrategy
                /\ conversation_text' = text
    /\ UNCHANGED <<hostVars, openai_client, local_summarizer, messages, custom_prompt, conversations,
                   summary, summaries, inflight, calls, result>>

Invoked(strategy) ==
    Append(calls, [channel |-> conversations[idx].channel_name, strategy |-> strategy,
                   outcome |-> "pending"])
Ended(outcome) == [calls EXCEPT ![Len(calls)].outcome = outcome]
Ran(strategy, outcome) ==
    Append(calls, [channel |-> conversations[idx].channel_name, strategy |-> strategy,
                   outcome |-> outcome])

\* a variant that starts the remote call as a task of its own and goes on
\* to the next bucket without awaiting it
RemoteCallDetached ==
    /\ pc = "remote"
    /\ inflight' = RemoteRequest(conversation_text, custom_prompt)
    /\ calls' = Invoked("remote")
    /\ idx' = idx + 1
    /\ pc' = "channel"
    /\ UNCHANGED <<hostVars, openai_client, local_summarizer, messages, custom_prompt, conversations,
                   conversation_text, summary, summaries, chan_results, result>>

\* lines 317-319 and 400: the remote call is issued
RemoteCall ==
    /\ pc = "remote"
    /\ inflight' = RemoteRequest(conversation_text, custom_prompt)
    /\ calls' = Invoked("remote")
    /\ pc' = "await_remote"
    /\ UNCHANGED <<hostVars, openai_client, local_summarizer, messages, custom_prompt, conversations,
                   idx, conversation_text, summary, summaries, chan_results, result>>

\* a variant of the return of the remote call without the except clause of
\* line 321: what the remote call raises leaves _generate_summary and is
\* caught at line 190
RemoteReturnUncaught(outcome) ==
    /\ pc = "await_remote"
    /\ inflight' = NoRequest
    /\ LET r == RemoteResult(outcome)
       IN  IF r.raised
           THEN /\ calls' = Ended("raised")
                /\ chan_results' = Append(chan_results,
                                          ChanResult("passed", "raised", "raised", <<>>))
                /\ summary' = <<>>
                /\ conversation_text' = <<>>
                /\ idx' = idx + 1
                /\ pc' = "channel"
           ELSE /\ calls' = Ended("returned")
                /\ chan_results' = chan_results
                /\ summary' = r.value
                /\ conversation_text' = conversation_text
                /\ idx' = idx
                /\ pc' = "format"
    /\ UNCHANGED <<hostVars, openai_client, local_summarizer, messages, custom_prompt, conversations,
                   summaries, result>>

\* lines 319-322: _summarize_with_openai returns or raises
RemoteReturn(outcome) ==
    /\ pc = "await_remote"
    /\ inflight' = NoRequest
    /\ LET r == RemoteResult(outcome)
       IN  IF r.raised
           THEN /\ calls' = Ended("raised")
                /\ summary' = summary
                /\ pc' = AfterRemoteFailure
           ELSE /\ calls' = Ended("returned")
                /\ summary' = r.value
                /\ pc' = "format"
    /\ UNCHANGED <<hostVars, openai_client, local_summarizer, messages, custom_prompt, conversations,
                   idx, conversation_text, summaries, chan_results, result>>

\* lines 325-327 and 432: the local model is invoked
LocalCall ==
    /\ pc = "local"
    /\ inflight' = LocalRequest(conversation_text)
    /\ calls' = Invoked("local")
    /\ pc' = "await_local"
    /\ UNCHANGED <<hostVars, openai_client, local_summarizer, messages, custom_prompt, conversations,
                   idx, conversation_text, summary, summaries, chan_results, result>>

\* a variant of the return of the local model that takes an empty result
\* for a failure and goes on to the extractive fallback
LocalReturnEmptyFails(outcome) ==
    /\ pc = "await_local"
    /\ inflight' = NoRequest
    /\ LET r == LocalResult(outcome)
       IN  IF r.raised \/ r.value = <<>>
           THEN /\ calls' = Ended(IF r.raised THEN "raised" ELSE "returned")
                /\ summary' = <<>>
                /\ pc' = AfterLocalFailure
           ELSE /\ calls' = Ended("returned")
                /\ summary' = r.value
                /\ pc' = "format"
    /\ UNCHANGED <<hostVars, openai_client, local_summarizer, messages, custom_prompt, conversations,
                   idx, conversation_text, summaries, chan_results, result>>

\* lines 327-330: _summarize_with_transformers returns or raises
LocalReturn(outcome) ==
    /\ pc = "await_local"
    /\ inflight' = NoRequest
    /\ LET r == LocalResult(outcome)
       IN  IF r.raised
           THEN /\ calls' = Ended("raised")
                /\ summary' = summary
                /\ pc' = AfterLocalFailure
           ELSE /\ calls' = Ended("returned")
                /\ summary' = r.value
                /\ pc' = "format"
    /\ UNCHANGED <<hostVars, openai_client, local_summarizer, messages, custom_prompt, conversations,
                   idx, conversation_text, summaries, chan_results, result>>

\* a variant of the extractive step without the try of line 184: what the
\* fallback raises leaves summarize_conversations
ExtractiveUncaught ==
    /\ pc = "extractive"
    /\ LET r == SimpleExtractiveSummary(conversation_text)
       IN  IF r.raised
           THEN /\ calls' = Ran("extractive", "raised")
                /\ chan_results' = Append(chan_results,
                                          ChanResult("passed", "raised", "raised", <<>>))
                /\ summary' = <<>>
                /\ conversation_text' = <<>>
                /\ idx' = idx
                /\ pc' = "done"
                /\ result' = [state |-> "raised", value |-> Chars(r.value)]
           ELSE /\ calls' = Ran("extractive", "returned")
                /\ chan_results' = chan_results
                /\ summary' = r.value
                /\ conversation_text' = conversation_text
                /\ idx' = idx
                /\ pc' = "format"
                /\ result' = result
    /\ UNCHANGED <<hostVars, openai_client, local_summarizer, messages, custom_prompt, conversations,
                   summaries, inflight>>

\* a variant whose except clause of line 190 ends the loop (break for
\* continue): the buckets after the one that raised are not summarized
ExtractiveEndsLoop ==
    /\ pc = "extractive"
    /\ LET r == SimpleExtractiveSummary(conversation_text)
       IN  IF r.raised
           THEN /\ calls' = Ran("extractive", "raised")
                /\ chan_results' = Append(chan_results,
                                          ChanResult("passed", "raised", "raised", <<>>))
                /\ summary' = <<>>
                /\ conversation_text' = <<>>
                /\ idx' = Len(conversations) + 1
                /\ pc' = "channel"
           ELSE /\ calls' = Ran("extractive", "returned")
                /\ chan_results' = chan_results
                /\ summary' = r.value
                /\ conversation_text' = conversation_text
                /\ idx' = idx
                /\ pc' = "format"
    /\ UNCHANGED <<hostVars, openai_client, local_summarizer, messages, custom_prompt, conversations,
                   summaries, inflight, result>>

\* line 333: the extractive fallback.  It is called outside any try of
\* _generate_summary, so what it raises leaves _generate_summary and
\* _summarize_channel_conversations and is caught at line 190.
Extractive ==
    /\ pc = "extractive"
    /\ LET r == SimpleExtractiveSummary(conversation_text)
       IN  IF r.raised
           THEN /\ calls' = Ran("extractive", "raised")
                /\ chan_results' = Append(chan_results,
                                          ChanResult("passed", "raised", "raised", <<>>))
                /\ summary' = <<>>
                /\ conversation_text' = <<>>
                /\ idx' = idx + 1
                /\ pc' = "channel"
           ELSE /\ calls' = Ran("extractive", "returned")
                /\ chan_results' = chan_results
                /\ summary' = r.value
                /\ conversation_text' = conversation_text
                /\ idx' = idx
                /\ pc' = "format"
    /\ UNCHANGED <<hostVars, openai_client, local_summarizer, messages, custom_prompt, conversations,
                   summaries, inflight, result>>

\* list(set): the participants in any order
Orderings(S) ==
    {f \in [1..Cardinality(S) -> S] : \A i, j \in 1..Cardinality(S) : f[i] = f[j] => i = j}

\* lines 264-285 and 188-189: the block of the bucket, or None for an
\* empty summary
Format(participants) ==
    /\ pc = "format"
    /\ LET bucket == conversations[idx]
           block == ChannelBlock(bucket.channel_name, Len(bucket.messages),
                        FormatUsernamesWithColors(CleanSummaryText(summary, participants),
                                                  participants))
       IN  IF summary = <<>>
           THEN /\ chan_results' = Append(chan_results,
                                          ChanResult("passed", "returned", "None", <<>>))
                /\ summaries' = summaries
           ELSE /\ chan_results' = Append(chan_results,
                                          ChanResult("passed", "returned", "str", block))
                /\ summaries' = IF block # <<>> THEN Append(summaries, block) ELSE summaries
    /\ summary' = <<>>
    /\ conversation_text' = <<>>
    /\ idx' = idx + 1
    /\ pc' = "channel"
    /\ UNCHANGED <<hostVars, openai_client, local_summarizer, messages, custom_prompt, conversations,
                   inflight, calls, result>>

\* lines 194-199
Finish ==
    /\ pc = "channel"
    /\ idx > Len(conversations)
    /\ result' = [state |-> "returned",
                  value |-> IF summaries = <<>> THEN NO_SIGNIFICANT
                            ELSE CombineSummaries(summaries)]
    /\ pc' = "done"
    /\ UNCHANGED <<hostVars, openai_client, local_summarizer, messages, custom_prompt, conversations,
                   idx, conversation_text, summary, summaries, inflight, calls, chan_results>>

Next ==
    \/ \E prompt \in Prompts : Call(prompt)
    \/ Group
    \/ Gate
    \/ RemoteCall
    \/ \E outcome \in RemoteOutcomes : RemoteReturn(outcome)
    \/ LocalCall
    \/ \E outcome \in LocalOutcomes : LocalReturn(outcome)
    \/ Extractive
    \/ /\ pc = "format"
       /\ \E participants \in Orderings(conversations[idx].participants) : Format(participants)
    \/ Finish

Spec == Init /\ [][Next]_vars

(***************************************************************************)
(* _group_messages_by_context on arbitrary lists: any arrangement of up to *)
(* MaxGroupMsgs distinct messages of the catalogue.                        *)
(***************************************************************************)
GroupInputs ==
    {f \in UNION {[1..n -> MsgIds] : n \in 0..MaxGroupMsgs} :
        \A i, j \in DOMAIN f : f[i] = f[j] => i = j}

InitGroup ==
    /\ openai_client = FALSE
    /\ local_summarizer = FALSE
    /\ messages \in GroupInputs
    /\ custom_prompt = <<>>
    /\ pc = "idle"
    /\ conversations = <<>>
    /\ idx = 0
    /\ conversation_text = <<>>
    /\ summary = <<>>
    /\ summaries = <<>>
    /\ inflight = NoRequest
    /\ calls = <<>>
    /\ chan_results = <<>>
    /\ result = Pending
    /\ HostIdle

NextGroup ==
    \/ \E prompt \in Prompts : Call(prompt)
    \/ Group

SpecGroup == InitGroup /\ [][NextGroup]_vars

(***************************************************************************)
(* _format_usernames_with_colors called on its own, once and again on its  *)
(* own output, with the same participant list.                             *)
(***************************************************************************)
MaxNames == 2
MaxApplications == 2

DecorateTexts ==
    { Chars("Emma said hi to Matt"), Chars("**Emma** and Matt talked"),
      Chars("**bee!** said hi"), Chars("bee! said hi"), Chars("nobody spoke"),
      Chars("Emma and Emma again"), Chars("**Emma**a left"), Chars("Matt-Emma agreed"),
      Chars("annbland replied to Emma"), Chars("emma wrote"), <<>>, Chars("Matt") }

DecorateNames == {Chars("Emma"), Chars("Matt"), Chars("bee!"), Chars("annbland"), Chars("Zed")}

\* the participant lists: up to MaxNames distinct names, in any order
ParticipantLists ==
    {f \in UNION {[1..n -> DecorateNames] : n \in 0..MaxNames} :
        \A i, j \in DOMAIN f : f[i] = f[j] => i = j}

InitDecorate ==
    /\ openai_client = FALSE
    /\ local_summarizer = FALSE
    /\ messages = <<>>
    /\ custom_prompt = <<>>
    /\ pc = "decorate"
    /\ conversations = <<>>
    /\ idx = 0
    /\ conversation_text = <<>>
    /\ summaries = <<>>
    /\ inflight = NoRequest
    /\ calls = <<>>
    /\ chan_results = <<>>
    /\ result = Pending
    /\ \E text \in DecorateTexts, participants \in ParticipantLists :
          /\ args = [text |-> text, participants |-> participants]
          /\ summary = text
    /\ embed = NoEmbed
    /\ DriverOff

\* summary = self._format_usernames_with_colors(summary, participants);
\* idx counts the applications
Decorate ==
    /\ pc = "decorate"
    /\ idx < MaxApplications
    /\ summary' = FormatUsernamesWithColors(summary, args.participants)
    /\ idx' = idx + 1
    /\ UNCHANGED <<openai_client, local_summarizer, messages, custom_prompt, pc,
                   conversations, conversation_text, summaries, inflight, calls,
                   chan_results, result, args, embed, driverVars>>

NextDecorate == Decorate

SpecDecorate == InitDecorate /\ [][NextDecorate]_vars

(***************************************************************************)
(* The embeds of src/src/commands/summary_commands.py.                     *)
(***************************************************************************)
DescriptionLimit == 1900
FieldValueLimit == 1024
FieldBudget == 10
EditFieldBudget == 9
ModalMaxLength == 4000

PARAGRAPH == Chars("\n\n")
ELLIPSIS == Chars("...")

\* s.split(sep) from index i on, sep non-empty
RECURSIVE SplitOn(_, _, _)
SplitOn(s, sep, i) ==
    LET hits == {j \in i..(Len(s) - Len(sep) + 1) : StartsWithAt(s, j, sep)}
    IN  IF hits = {}
        THEN <<SubSeq(s, i, Len(s))>>
        ELSE <<SubSeq(s, i, Min(hits) - 1)>> \o SplitOn(s, sep, Min(hits) + Len(sep))

Field(name, value) == [name |-> name, value |-> value]

\* f"📝 Part {n}"
PartPrefix == <<"u1F4DD">> \o Chars(" Part")
PartName(n) == PartPrefix \o <<" ">> \o DecStr(n)
StatsName == <<"u1F4CA">> \o Chars(" Stats")

\* a variant that adds every part that is under the value limit
RECURSIVE AddPartsOverBudget(_, _, _, _)
AddPartsOverBudget(fields, parts, i, budget) ==
    IF parts = <<>> THEN fields
    ELSE AddPartsOverBudget(IF Len(Head(parts)) < FieldValueLimit
                            THEN Append(fields, Field(PartName(i + 1), Head(parts)))
                            ELSE fields,
                            Tail(parts), i + 1, budget)

\* a variant that numbers the sub-blocks by their place among the fields
RECURSIVE AddPartsRenumbered(_, _, _, _)
AddPartsRenumbered(fields, parts, i, budget) ==
    IF parts = <<>> THEN fields
    ELSE AddPartsRenumbered(IF Len(fields) < budget /\ Len(Head(parts)) < FieldValueLimit
                            THEN Append(fields, Field(PartName(Len(fields) + 2), Head(parts)))
                            ELSE fields,
                            Tail(parts), i + 1, budget)

\* for i, part in enumerate(summary_parts[1:], 1): add the part as a field
\* when fewer than budget fields are there and it is under the value limit
RECURSIVE AddParts(_, _, _, _)
AddParts(fields, parts, i, budget) ==
    IF parts = <<>> THEN fields
    ELSE AddParts(IF Len(fields) < budget /\ Len(Head(parts)) < FieldValueLimit
                  THEN Append(fields, Field(PartName(i + 1), Head(parts)))
                  ELSE fields,
                  Tail(parts), i + 1, budget)

\* lines 82-97, 191-206, 376-388 (budget 10) and 430-441 (budget 9)
Chunked(text, budget) ==
    IF Len(text) > DescriptionLimit
    THEN LET summary_parts == SplitOn(text, PARAGRAPH, 1)
         IN  [description |-> Take(summary_parts[1], DescriptionLimit) \o ELLIPSIS,
              fields |-> AddParts(<<>>, Tail(summary_parts), 1, budget)]
    ELSE [description |-> text, fields |-> <<>>]

TimeframeValue(hours) == Chars("Last ") \o DecStr(hours) \o Chars(" hours")
StatsField(count, hours) ==
    Field(StatsName, Chars("**Messages:** ") \o DecStr(count)
                     \o Chars("\n**Timeframe:** ") \o TimeframeValue(hours))

\* /private_summary, lines 75-117
PrivateSummaryEmbed(text, hours, count) ==
    LET e == Chunked(text, FieldBudget)
    IN  [e EXCEPT !.fields = @ \o
            << Field(<<"u1F4CD">> \o Chars(" Server"), Chars("Book Club")),
               Field(<<"u23F0">> \o Chars(" Timeframe"), TimeframeValue(hours)),
               Field(<<"u1F4C8">> \o Chars(" Messages Analyzed"),
                     DecStr(count) \o Chars(" messages")) >>]

\* /summary, lines 184-220
SlashSummaryEmbed(text, hours, count) ==
    LET e == Chunked(text, FieldBudget)
    IN  [e EXCEPT !.fields = @ \o
            << Field(Chars("Timeframe"), TimeframeValue(hours)),
               Field(Chars("Messages Analyzed"), DecStr(count)) >>]

\* /preview_summary, lines 368-396
PreviewEmbed(text, hours, count) ==
    LET e == Chunked(text, FieldBudget)
    IN  [e EXCEPT !.fields = Append(@, StatsField(count, hours))]

\* /summy, lines 294-313: the answer goes into the description whole
SummyEmbed(question, text, hours, count) ==
    [description |-> Chars("**Question:** ") \o question
                     \o Chars("\n\n**Answer:**\n") \o text,
     fields |-> << Field(<<"u1F4CD">> \o Chars(" Channel"), Chars("<#7>")),
                   Field(<<"u1F4C8">> \o Chars(" Messages Scanned"),
                         DecStr(count) \o Chars(" messages")) >>]

IsPartField(field) == StartsWith(field.name, PartPrefix)
NotPartField(field) == ~IsPartField(field)

\* SummaryDestinationView._extract_summary_text
RECURSIVE PartTexts(_)
PartTexts(fields) ==
    IF fields = <<>> THEN <<>>
    ELSE (IF IsPartField(Head(fields)) THEN PARAGRAPH \o Head(fields).value ELSE <<>>)
         \o PartTexts(Tail(fields))
ExtractSummaryText(e) == e.description \o PartTexts(e.fields)

\* SummaryEditModal.__init__: the text the modal opens with
ModalDefault(current_text) ==
    IF Len(current_text) > ModalMaxLength
    THEN Take(current_text, ModalMaxLength - 3) \o ELLIPSIS
    ELSE current_text

\* SummaryDestinationView._update_embed_with_text
UpdateEmbedWithText(e, new_text, hours, count) ==
    LET shown == IF Len(new_text) > DescriptionLimit
                 THEN Chunked(new_text, EditFieldBudget)
                 ELSE [description |-> new_text,
                       fields |-> SelectSeq(e.fields, NotPartField)]
    IN  [shown EXCEPT !.fields = Append(@, StatsField(count, hours))]

MaxParts == 11
MaxEdits == 2

Filler(n) == [i \in 1..n |-> "a"]
\* the text of paragraphs of the given lengths
TextOf(lens) == Join([i \in 1..Len(lens) |-> Filler(lens[i])], PARAGRAPH)

LeadLengths == {10, 1900, 1901, 3000}
PartLengths == {5, 1023, 1024, 1025}
PartLists ==
    {[i \in 1..k |-> 5] : k \in 0..MaxParts}
    \cup UNION {[1..k -> PartLengths] : k \in 1..2}
RenderTexts == {TextOf(<<lead>> \o parts) : lead \in LeadLengths, parts \in PartLists}
\* what the modal can submit besides the text it opened with: at most
\* ModalMaxLength characters
EditTexts ==
    { TextOf(<<20>>), TextOf(<<1901>>), TextOf(<<3990>>), TextOf(<<1900, 1023, 1024>>),
      TextOf(<<1901>> \o [i \in 1..10 |-> 5]) }
RenderCommands == {"private_summary", "summary", "preview_summary", "summy"}

InitRender ==
    /\ openai_client = FALSE
    /\ local_summarizer = FALSE
    /\ messages = <<>>
    /\ custom_prompt = <<>>
    /\ pc = "render"
    /\ conversations = <<>>
    /\ idx = 0
    /\ conversation_text = <<>>
    /\ summary \in RenderTexts
    /\ summaries = <<>>
    /\ inflight = NoRequest
    /\ calls = <<>>
    /\ chan_results = <<>>
    /\ result = Pending
    /\ \E command \in RenderCommands :
          args = [command |-> command, hours |-> 24, count |-> 5,
                  question |-> Chars("who won")]
    /\ embed = NoEmbed
    /\ DriverOff

\* the command builds its embed from the summary
Render ==
    /\ pc = "render"
    /\ embed' = CASE args.command = "private_summary" ->
                        PrivateSummaryEmbed(summary, args.hours, args.count)
                   [] args.command = "summary" ->
                        SlashSummaryEmbed(summary, args.hours, args.count)
                   [] args.command = "preview_summary" ->
                        PreviewEmbed(summary, args.hours, args.count)
                   [] args.command = "summy" ->
                        SummyEmbed(args.question, summary, args.hours, args.count)
    /\ pc' = IF args.command = "preview_summary" THEN "preview" ELSE "shown"
    /\ UNCHANGED <<openai_client, local_summarizer, messages, custom_prompt,
                   conversations, idx, conversation_text, summary, summaries, inflight,
                   calls, chan_results, result, args, driverVars>>

\* edit_summary and SummaryEditModal.on_submit: the modal opens with the
\* text of the embed and submits it as it is or another text; idx counts
\* the edits
EditSummary(new_text) ==
    /\ pc = "preview"
    /\ idx < MaxEdits
    /\ embed' = UpdateEmbedWithText(embed, new_text, args.hours, args.count)
    /\ summary' = new_text
    /\ idx' = idx + 1
    /\ UNCHANGED <<openai_client, local_summarizer, messages, custom_prompt, pc,
                   conversations, conversation_text, summaries, inflight, calls,
                   chan_results, result, args, driverVars>>

\* what the modal can submit: the text it opened with, or another text
Submissions ==
    IF embed = NoEmbed THEN EditTexts
    ELSE EditTexts \cup {ModalDefault(ExtractSummaryText(embed))}

NextRender ==
    \/ Render
    \/ \E new_text \in Submissions : EditSummary(new_text)

SpecRender == InitRender /\ [][NextRender]_vars

(***************************************************************************)
(* The bot: the daily job of src/main.py and the slash commands of         *)
(* src/src/commands.  Time is counted in hours.                            *)
(***************************************************************************)
NumGuilds == 2
Guilds == 1..NumGuilds

HoursLimit == 168
HistoryLimit == 1000
DailyHour == 23
\* the user who runs the commands
Admin == 42

NoConfig ==
    [exists |-> FALSE, monitored_channels |-> <<>>, summary_channel |-> FALSE,
     test_mode |-> FALSE, test_user_id |-> 0]
\* a guild set up with /config: monitored channels and a summary channel
Configured ==
    [exists |-> TRUE, monitored_channels |-> <<"general", "random">>,
     summary_channel |-> TRUE, test_mode |-> FALSE, test_user_id |-> 0]
\* a guild whose summary channel is not set or is gone
NoSummaryChannel == [Configured EXCEPT !.summary_channel = FALSE]

\* how a send to Discord ends: it returns, or raises discord.Forbidden or
\* another discord.HTTPException
SendOutcomes == {"none", "forbidden", "http_error"}
Event(guild, to, what, error) == [guild |-> guild, to |-> to, what |-> what, error |-> error]

\* now.replace(hour=0, minute=0, second=0, microsecond=0)
Midnight(now) == now - (now % 24)

\* the history loop of the commands: after=cutoff, limit=1000 (None in
\* /summy), bot authors left out
CollectSince(ch, cutoff, now, limit) ==
    SelectSeq(Take(History(ch, cutoff, now, 1), limit), IsUser)
CollectSinceNoLimit(ch, cutoff, now) == SelectSeq(History(ch, cutoff, now, 1), IsUser)

InitHost ==
    /\ openai_client = FALSE
    /\ local_summarizer = FALSE
    /\ messages = <<>>
    /\ custom_prompt = <<>>
    /\ pc = "off"
    /\ conversations = <<>>
    /\ idx = 0
    /\ conversation_text = <<>>
    /\ summary = <<>>
    /\ summaries = <<>>
    /\ inflight = NoRequest
    /\ calls = <<>>
    /\ chan_results = <<>>
    /\ result = Pending
    /\ args = <<>>
    /\ embed = NoEmbed
    /\ guild_configs \in [Guilds -> {NoConfig, Configured, NoSummaryChannel}]
    /\ \A g \in Guilds : g > 1 => guild_configs[g] = Configured
    /\ trigger = NoTrigger
    /\ hpc = "idle"
    /\ dest = "none"
    /\ outbox = <<>>
    /\ job = 0
    /\ log = <<>>
    /\ handlers = <<>>

\* the handler calls summarize_conversations on the list it collected
HandOver(ms) ==
    /\ messages' = ms
    /\ custom_prompt' = <<>>
    /\ pc' = "idle"
    /\ conversations' = <<>>
    /\ idx' = 0
    /\ conversation_text' = <<>>
    /\ summary' = <<>>
    /\ summaries' = <<>>
    /\ inflight' = NoRequest
    /\ calls' = <<>>
    /\ chan_results' = <<>>
    /\ result' = Pending
    /\ UNCHANGED <<openai_client, local_summarizer>>

\* /config test_mode
ConfigTestMode(g, enabled) ==
    /\ hpc = "idle"
    /\ guild_configs' =
          [guild_configs EXCEPT ![g] =
              [(IF @.exists THEN @ ELSE [NoConfig EXCEPT !.exists = TRUE])
                  EXCEPT !.test_mode = enabled,
                         !.test_user_id = IF enabled THEN Admin ELSE 0]]
    /\ UNCHANGED <<coreVars, args, handlers, embed, trigger, hpc, dest, outbox, job, log>>

\* daily_summary starts: the loop over self.guilds is at its first guild
DailySummary ==
    /\ hpc = "idle"
    /\ trigger' = [NoTrigger EXCEPT !.command = "daily_job", !.now = DailyHour]
    /\ job' = 1
    /\ hpc' = "guild"
    /\ UNCHANGED <<coreVars, args, handlers, embed, guild_configs, dest, outbox, log>>

\* /daily, up to the call of generate_guild_summary
SlashDaily(g, now) ==
    /\ hpc = "idle"
    /\ trigger' = [NoTrigger EXCEPT !.command = "daily", !.guild = g, !.now = now]
    /\ outbox' = Append(outbox, Event(g, "reply", "progress", "none"))
    /\ job' = g
    /\ hpc' = "guild"
    /\ UNCHANGED <<coreVars, args, handlers, embed, guild_configs, dest, log>>

\* generate_guild_summary and send_test_summary, up to the call of
\* summarize_conversations: found is whether get_user finds the test
\* user, outcome how the send of the "No conversations found" DM ends
GenerateGuildSummary(found, outcome) ==
    /\ hpc = "guild"
    /\ LET guild_config == guild_configs[job]
           all_messages == Collect(guild_config.monitored_channels,
                                   Midnight(trigger.now), trigger.now)
       IN  IF ~guild_config.exists
           THEN /\ hpc' = "returned"
                /\ UNCHANGED <<coreVars, dest, outbox>>
           ELSE IF guild_config.test_mode /\ guild_config.test_user_id # 0 /\ found
           THEN IF all_messages = <<>>
                THEN /\ outbox' = Append(outbox, Event(job, "test_user", "no_messages", outcome))
                     /\ hpc' = IF outcome = "http_error" THEN "raised" ELSE "returned"
                     /\ UNCHANGED <<coreVars, dest>>
                ELSE /\ HandOver(all_messages)
                     /\ dest' = "test_user"
                     /\ hpc' = "summarize"
                     /\ outbox' = outbox
           ELSE IF ~guild_config.summary_channel \/ all_messages = <<>>
           THEN /\ hpc' = "returned"
                /\ UNCHANGED <<coreVars, dest, outbox>>
           ELSE /\ HandOver(all_messages)
                /\ dest' = "summary_channel"
                /\ hpc' = "summarize"
                /\ outbox' = outbox
    /\ UNCHANGED <<args, handlers, embed, guild_configs, trigger, job, log>>

\* a variant of post_summary without the try of lines 207-211
PostSummaryUncaught(outcome) ==
    /\ hpc = "summarize"
    /\ pc = "done"
    /\ dest = "summary_channel"
    /\ outbox' = Append(outbox, Event(job, "summary_channel", "digest", outcome))
    /\ hpc' = IF outcome = "none" THEN "returned" ELSE "raised"
    /\ UNCHANGED <<coreVars, args, handlers, embed, guild_configs, trigger, dest, job, log>>

\* post_summary: channel.send, every exception caught and logged
PostSummary(outcome) ==
    /\ hpc = "summarize"
    /\ pc = "done"
    /\ dest = "summary_channel"
    /\ outbox' = Append(outbox, Event(job, "summary_channel", "digest", outcome))
    /\ hpc' = "returned"
    /\ UNCHANGED <<coreVars, args, handlers, embed, guild_configs, trigger, dest, job, log>>

\* the end of send_test_summary: test_user.send, discord.Forbidden caught
SendTestSummary(outcome) ==
    /\ hpc = "summarize"
    /\ pc = "done"
    /\ dest = "test_user"
    /\ outbox' = Append(outbox, Event(job, "test_user", "digest", outcome))
    /\ hpc' = IF outcome = "http_error" THEN "raised" ELSE "returned"
    /\ UNCHANGED <<coreVars, args, handlers, embed, guild_configs, trigger, dest, job, log>>

\* daily_summary: generate_guild_summary has ended for one guild, an
\* exception is logged, and the loop goes to the next guild
DailySummaryNext ==
    /\ trigger.command = "daily_job"
    /\ hpc \in {"returned", "raised"}
    /\ log' = Append(log, [guild |-> job, outcome |-> hpc])
    /\ IF job < NumGuilds
       THEN job' = job + 1 /\ hpc' = "guild"
       ELSE job' = job /\ hpc' = "done"
    /\ UNCHANGED <<coreVars, args, handlers, embed, guild_configs, trigger, dest, outbox>>

\* /daily after generate_guild_summary: the confirmation, or the failure
\* notice when an exception came out of it
SlashDailyReply ==
    /\ trigger.command = "daily"
    /\ hpc \in {"returned", "raised"}
    /\ log' = Append(log, [guild |-> job, outcome |-> hpc])
    /\ outbox' = Append(outbox,
                        Event(job, "reply",
                              IF hpc = "returned" THEN "confirmation" ELSE "failure",
                              "none"))
    /\ hpc' = "done"
    /\ UNCHANGED <<coreVars, args, handlers, embed, guild_configs, trigger, dest, job>>

AdHocCommands == {"summary", "private_summary", "summy", "preview_summary"}
CommandChannels == {"general", "random"}
CommandHours == {0, 3, 168, 169, 1000}
CommandNows == {8, 172}
Question == Chars("who liked it?")

\* where each command delivers
Destination(command) ==
    CASE command = "private_summary" -> "user_dm"
      [] command = "preview_summary" -> "preview"
      [] OTHER -> "reply"

\* a variant that looks back as far as asked
CommandTakingAnyHours(command, g, channel, hours, now, permitted) ==
    /\ hpc = "idle"
    /\ trigger' = [command |-> command, guild |-> g, channel |-> channel, hours |-> hours,
                   now |-> now,
                   question |-> IF command = "summy" THEN Question ELSE <<>>]
    /\ job' = g
    /\ LET cutoff_time == now - hours
           collected == IF command = "summy"
                        THEN CollectSinceNoLimit(channel, cutoff_time, now)
                        ELSE CollectSince(channel, cutoff_time, now, HistoryLimit)
       IN  IF ~permitted
           THEN /\ outbox' = Append(outbox, Event(g, "reply", "denied", "none"))
                /\ hpc' = "done"
                /\ UNCHANGED <<coreVars, dest>>
           ELSE IF collected = <<>>
           THEN /\ outbox' = outbox \o << Event(g, "reply", "progress", "none"),
                                          Event(g, "reply", "no_messages", "none") >>
                /\ hpc' = "done"
                /\ UNCHANGED <<coreVars, dest>>
           ELSE /\ outbox' = Append(outbox, Event(g, "reply", "progress", "none"))
                /\ HandOver(collected)
                /\ dest' = Destination(command)
                /\ hpc' = "summarize"
    /\ UNCHANGED <<args, handlers, embed, guild_configs, log>>

\* /summary, /private_summary, /summy and /preview_summary, up to the call
\* of summarize_conversations
Command(command, g, channel, hours, now, permitted) ==
    /\ hpc = "idle"
    /\ trigger' = [command |-> command, guild |-> g, channel |-> channel, hours |-> hours,
                   now |-> now,
                   question |-> IF command = "summy" THEN Question ELSE <<>>]
    /\ job' = g
    /\ LET cutoff_time == now - hours
           collected == IF command = "summy"
                        THEN CollectSinceNoLimit(channel, cutoff_time, now)
                        ELSE CollectSince(channel, cutoff_time, now, HistoryLimit)
       IN  IF ~permitted
           THEN /\ outbox' = Append(outbox, Event(g, "reply", "denied", "none"))
                /\ hpc' = "done"
                /\ UNCHANGED <<coreVars, dest>>
           ELSE IF hours > HoursLimit
           THEN /\ outbox' = Append(outbox, Event(g, "reply", "refused", "none"))
                /\ hpc' = "done"
                /\ UNCHANGED <<coreVars, dest>>
           ELSE IF collected = <<>>
           THEN /\ outbox' = outbox \o << Event(g, "reply", "progress", "none"),
                                          Event(g, "reply", "no_messages", "none") >>
                /\ hpc' = "done"
                /\ UNCHANGED <<coreVars, dest>>
           ELSE /\ outbox' = Append(outbox, Event(g, "reply", "progress", "none"))
                /\ HandOver(collected)
                /\ dest' = Destination(command)
                /\ hpc' = "summarize"
    /\ UNCHANGED <<args, handlers, embed, guild_configs, log>>

\* the embed the running command builds from the summary
CommandEmbed ==
    CASE trigger.command = "private_summary" ->
             PrivateSummaryEmbed(result.value, trigger.hours, Len(messages))
      [] trigger.command = "summary" ->
             SlashSummaryEmbed(result.value, trigger.hours, Len(messages))
      [] trigger.command = "preview_summary" ->
             PreviewEmbed(result.value, trigger.hours, Len(messages))
      [] trigger.command = "summy" ->
             SummyEmbed(trigger.question, result.value, trigger.hours, Len(messages))

\* /private_summary after the summary: the DM, then the confirmation or
\* the failure notice
PrivateSummarySend(outcome) ==
    /\ hpc = "summarize"
    /\ pc = "done"
    /\ dest = "user_dm"
    /\ embed' = CommandEmbed
    /\ outbox' = outbox \o
          << Event(job, "user_dm", "digest", outcome),
             Event(job, "reply", IF outcome = "none" THEN "confirmation" ELSE "failure",
                   "none") >>
    /\ hpc' = "done"
    /\ UNCHANGED <<coreVars, args, handlers, guild_configs, trigger, dest, job, log>>

\* /summary and /summy after the summary: the embed goes to the reply;
\* a failed send is followed by the failure notice
ReplySend(outcome) ==
    /\ hpc = "summarize"
    /\ pc = "done"
    /\ dest = "reply"
    /\ embed' = CommandEmbed
    /\ outbox' = outbox \o << Event(job, "reply", "digest", outcome) >>
                  \o (IF outcome = "none" THEN <<>>
                      ELSE << Event(job, "reply", "failure", "none") >>)
    /\ hpc' = "done"
    /\ UNCHANGED <<coreVars, args, handlers, guild_configs, trigger, dest, job, log>>

\* /preview_summary after the summary: the preview with its buttons
PreviewSend(outcome) ==
    /\ hpc = "summarize"
    /\ pc = "done"
    /\ dest = "preview"
    /\ embed' = CommandEmbed
    /\ outbox' = outbox \o << Event(job, "reply", "preview", outcome) >>
                  \o (IF outcome = "none" THEN <<>>
                      ELSE << Event(job, "reply", "failure", "none") >>)
    /\ hpc' = IF outcome = "none" THEN "preview" ELSE "done"
    /\ UNCHANGED <<coreVars, args, handlers, guild_configs, trigger, dest, job, log>>

\* the buttons of SummaryDestinationView: send_to_channel and send_to_dms
\* (to is "channel" or "user_dm")
SendButton(to, outcome) ==
    /\ hpc = "preview"
    /\ outbox' = outbox \o
          << Event(job, to, "digest", outcome),
             Event(job, "reply", IF outcome = "none" THEN "confirmation" ELSE "failure",
                   "none") >>
    /\ hpc' = "done"
    /\ UNCHANGED <<coreVars, args, handlers, embed, guild_configs, trigger, dest, job, log>>

\* the Cancel button
Cancel ==
    /\ hpc = "preview"
    /\ outbox' = Append(outbox, Event(job, "reply", "cancelled", "none"))
    /\ hpc' = "done"
    /\ UNCHANGED <<coreVars, args, handlers, embed, guild_configs, trigger, dest, job, log>>

NextHost ==
    \/ \E g \in Guilds, enabled \in BOOLEAN : ConfigTestMode(g, enabled)
    \/ DailySummary
    \/ \E g \in Guilds, now \in {8, 32} : SlashDaily(g, now)
    \/ \E found \in BOOLEAN, outcome \in SendOutcomes : GenerateGuildSummary(found, outcome)
    \/ \E outcome \in SendOutcomes : PostSummary(outcome)
    \/ \E outcome \in SendOutcomes : SendTestSummary(outcome)
    \/ DailySummaryNext
    \/ SlashDailyReply
    \/ \E command \in AdHocCommands, channel \in CommandChannels, hours \in CommandHours,
          now \in CommandNows, permitted \in BOOLEAN :
          Command(command, 1, channel, hours, now, permitted)
    \/ \E outcome \in SendOutcomes : PrivateSummarySend(outcome)
    \/ \E outcome \in {"none", "http_error"} : ReplySend(outcome)
    \/ \E outcome \in {"none", "http_error"} : PreviewSend(outcome)
    \/ \E to \in {"channel", "user_dm"}, outcome \in SendOutcomes : SendButton(to, outcome)
    \/ Cancel
    \/ Call(trigger.question)
    \/ Group
    \/ Gate
    \/ Extractive
    \/ /\ pc = "format"
       /\ \E participants \in Orderings(conversations[idx].participants) : Format(participants)
    \/ Finish

SpecHost == InitHost /\ [][NextHost]_vars

(***************************************************************************)
(* Properties                                                              *)
(***************************************************************************)
LastCall == calls[Len(calls)]
LastChanResult == chan_results[Len(chan_results)]
Strategies == {"remote", "local", "extractive"}

\* C1: when the remote completion call raises, the exception does not leave
\* _generate_summary (the bucket gets no result at that step and
\* summarize_conversations does not end), and the next strategy is the one
\* invoked next: the local model if one is configured, otherwise the
\* extractive fallback.
C1_RemoteFailureFallsThrough ==
    [][/\ (/\ pc = "await_remote"
           /\ calls'[Len(calls')].outcome = "raised")
          => /\ pc' = (IF local_summarizer THEN "local" ELSE "extractive")
             /\ chan_results' = chan_results
             /\ result' = result
       /\ (pc \in {"local", "extractive"} /\ LastCall.strategy = "remote")
          => /\ LastCall.outcome = "raised"
             /\ Len(calls') = Len(calls) + 1
             /\ calls'[Len(calls')].strategy = pc
             /\ calls'[Len(calls')].channel = LastCall.channel
      ]_vars

\* a remote call has raised and the next strategy is about to be invoked
C1_Witness ==
    /\ pc \in {"local", "extractive"}
    /\ calls # <<>>
    /\ LastCall.strategy = "remote"
    /\ LastCall.outcome = "raised"

\* C2 (as stated): a bucket yields None only when the gate rejects it, and
\* every bucket that passes the gate gets a non-empty string, with no
\* exception raised.
C2_PassedGateYieldsString ==
    \A k \in 1..Len(chan_results) :
        /\ chan_results[k].outcome = "None" => chan_results[k].gate = "rejected"
        /\ chan_results[k].gate = "passed"
           => chan_results[k].outcome = "str" /\ chan_results[k].value # <<>>

\* C3 (as stated): on a non-empty text of at least 6 lines the extractive
\* fallback returns a non-empty string and does not raise.
C3_ExtractiveReturnsString ==
    (/\ pc = "extractive"
     /\ conversation_text # <<>>
     /\ Len(Split(conversation_text, "\n")) >= BriefMaxLines + 1)
    => /\ ~SimpleExtractiveSummary(conversation_text).raised
       /\ SimpleExtractiveSummary(conversation_text).value # <<>>

\* a backend call (remote or local) returns the empty string at this step
ReturnsEmpty ==
    /\ pc \in {"await_remote", "await_local"}
    /\ calls'[Len(calls')].outcome = "returned"
    /\ summary' = <<>>

Rank(strategy) == CASE strategy = "remote" -> 1 [] strategy = "local" -> 2 [] OTHER -> 3

FailedBefore(i, strategy) ==
    \E j \in 1..(i - 1) :
        /\ calls[j].channel = calls[i].channel
        /\ calls[j].strategy = strategy
        /\ calls[j].outcome = "raised"

C5_StrategyOrder ==
    \A i \in 1..Len(calls) :
        calls[i].strategy \in Strategies
        => /\ \A j \in 1..(i - 1) :
                  calls[j].channel = calls[i].channel
                  => /\ Rank(calls[j].strategy) < Rank(calls[i].strategy)
                     /\ calls[j].outcome = "raised"
           /\ calls[i].strategy = "remote" => openai_client
           /\ calls[i].strategy = "local"
              => local_summarizer /\ (openai_client => FailedBefore(i, "remote"))
           /\ calls[i].strategy = "extractive"
              => /\ openai_client => FailedBefore(i, "remote")
                 /\ local_summarizer => FailedBefore(i, "local")

\* remote and local have raised in turn and the extractive fallback has
\* returned, all for one bucket
C5_Witness ==
    \E i \in 1..(Len(calls) - 2) :
        /\ calls[i].strategy = "remote" /\ calls[i].outcome = "raised"
        /\ calls[i + 1].strategy = "local" /\ calls[i + 1].outcome = "raised"
        /\ calls[i + 2].strategy = "extractive" /\ calls[i + 2].outcome = "returned"
        /\ calls[i].channel = calls[i + 2].channel

\* the stages of one bucket still ahead of the position pc
StagesLeft ==
    CASE pc = "channel" -> 7
      [] pc = "remote" -> 6
      [] pc = "await_remote" -> 5
      [] pc = "local" -> 4
      [] pc = "await_local" -> 3
      [] pc = "extractive" -> 2
      [] pc = "format" -> 1
      [] OTHER -> 0

\* an upper bound on the steps summarize_conversations still takes
StepsLeft ==
    CASE pc = "done" -> 0
      [] pc = "idle" -> 8 * (Len(messages) + 1) + 3
      [] pc = "group" -> 8 * (Len(messages) + 1) + 2
      [] OTHER -> 8 * (Len(conversations) + 1 - idx) + StagesLeft

\* the guards of the actions: the coroutine has a step to take
CanStep ==
    \/ pc \in {"idle", "group"}
    \/ pc = "channel" /\ idx >= 1
    \/ /\ pc \in {"remote", "local", "extractive"}
       /\ idx \in 1..Len(conversations)
    \/ pc = "await_remote" /\ inflight.backend = "remote" /\ RemoteOutcomes # {}
    \/ pc = "await_local" /\ inflight.backend = "local" /\ LocalOutcomes # {}
    \/ /\ pc = "format"
       /\ idx \in 1..Len(conversations)
       /\ Orderings(conversations[idx].participants) # {}

\* C6: summarize_conversations never ends by raising, and it ends by
\* returning a non-empty string, whatever the list and whichever strategies
\* fail: until it has returned it has a step to take, and every step brings
\* the bound StepsLeft down.
C6_AlwaysReturnsString ==
    /\ [](result.state \in {"pending", "returned"})
    /\ [](pc = "done" <=> result.state = "returned")
    /\ [](pc = "done" => result.value # <<>>)
    /\ [](pc # "done" => CanStep)
    /\ [][StepsLeft' < StepsLeft /\ StepsLeft' >= 0]_vars

\* the call has returned although the extractive fallback raised for a
\* bucket
C6_Witness ==
    /\ pc = "done"
    /\ result.state = "returned"
    /\ \E i \in 1..Len(calls) : calls[i].strategy = "extractive" /\ calls[i].outcome = "raised"

Count(seq, id) == Cardinality({i \in 1..Len(seq) : seq[i] = id})

RECURSIVE AllBucketMessages(_)
AllBucketMessages(buckets) ==
    IF buckets = <<>> THEN <<>>
    ELSE Head(buckets).messages \o AllBucketMessages(Tail(buckets))

\* C7: whatever the order of the list handed over, the buckets built from
\* it hold their messages in ascending created_at order, each message in
\* the bucket of its own channel name (one bucket per name), and together
\* exactly the messages of the list, each once.
C7_GroupingKeepsMessages ==
    [][pc = "group"
       => /\ \A b \in 1..Len(conversations') :
                 LET ms == conversations'[b].messages
                 IN  /\ \A i, j \in 1..Len(ms) :
                            i < j => Msg(ms[i]).created_at <= Msg(ms[j]).created_at
                     /\ \A i \in 1..Len(ms) :
                            Msg(ms[i]).channel = conversations'[b].channel_name
          /\ \A a, b \in 1..Len(conversations') :
                 conversations'[a].channel_name = conversations'[b].channel_name => a = b
          /\ \A id \in MsgIds :
                 Count(AllBucketMessages(conversations'), id) = Count(messages, id)
      ]_vars

\* a list of three messages of two channels has been grouped
C7_Witness ==
    /\ pc = "channel"
    /\ Len(messages) = MaxGroupMsgs
    /\ Len(conversations) = 2
    /\ \E b \in 1..2 : Len(conversations[b].messages) = 2

\* a bucket of fewer than 3 messages, or of 3 one-character messages
SmallBucket(bucket) ==
    \/ Len(bucket.messages) < MinMessages
    \/ /\ Len(bucket.messages) = MinMessages
       /\ \A i \in 1..Len(bucket.messages) : Len(Msg(bucket.messages[i]).content) = 1

\* C8: a bucket of fewer than 3 messages, and a bucket of 3 one-character
\* messages, gets None from _summarize_channel_conversations, and no
\* strategy (remote, local or extractive) is ever invoked for it.
C8_SmallBucketsAreSkipped ==
    \A k \in 1..Len(conversations) :
        SmallBucket(conversations[k])
        => /\ \A i \in 1..Len(calls) : calls[i].channel # conversations[k].channel_name
           /\ k <= Len(chan_results)
              => /\ chan_results[k].channel = conversations[k].channel_name
                 /\ chan_results[k].outcome = "None"
                 /\ chan_results[k].generate = "not_called"

\* the call has ended with a bucket of exactly 2 messages and a bucket of 3
\* one-character messages both skipped
C8_Witness ==
    /\ pc = "done"
    /\ \E a, b \in 1..Len(conversations) :
           /\ Len(conversations[a].messages) = 2
           /\ Len(conversations[b].messages) = MinMessages
           /\ SmallBucket(conversations[b])
           /\ chan_results[a].outcome = "None"
           /\ chan_results[b].outcome = "None"

\* C9: on an empty list summarize_conversations returns exactly "No
\* conversations found for today." and neither the grouping nor any
\* strategy is invoked.
C9_EmptyList ==
    (messages = <<>> /\ pc # "idle")
    => /\ pc = "done"
       /\ result = [state |-> "returned", value |-> NO_CONVERSATIONS]
       /\ calls = <<>>
       /\ conversations = <<>>

\* the call on an empty list has returned
C9_Witness ==
    /\ messages = <<>>
    /\ pc = "done"
    /\ result.value = NO_CONVERSATIONS

\* the scenario of C10: no remote backend, no local model, 5 messages of one
\* channel by 2 distinct authors, each of at least 15 characters
FiveMessageScenario ==
    /\ ~openai_client
    /\ ~local_summarizer
    /\ Len(messages) = 5
    /\ \A i \in 1..5 : Msg(messages[i]).channel = Msg(messages[1]).channel
    /\ Cardinality({Msg(messages[i]).author : i \in 1..5}) = 2
    /\ \A i \in 1..5 : Len(Msg(messages[i]).content) >= 15

\* the templated sentence of lines 479-480 for n messages, naming the authors
NamesAuthorsAndCount(text, authors, n) ==
    /\ Contains(text, Chars("Conversation between "))
    /\ \A a \in authors : Contains(text, a)
    /\ Contains(text, Chars("The discussion included ") \o DecStr(n) \o Chars(" messages"))

DigestHeader(n) ==
    DigestTitle \o DecStr(n) \o Chars(" channels had significant activity*\n\n")
HeaderAndBlocks(blocks) == DigestHeader(Len(blocks)) \o Join(blocks, Chars("\n\n"))

\* C11 (as stated): the digest of two or more blocks is the header with the
\* number of channels, the blocks joined by a blank line, and then a
\* generation-timestamp footer; a single block is returned unchanged.
C11_HeaderBlocksFooter ==
    (pc = "done" /\ summaries # <<>>)
    => IF Len(summaries) = 1
       THEN result.value = summaries[1]
       ELSE /\ StartsWith(result.value, HeaderAndBlocks(summaries))
            /\ Len(result.value) > Len(HeaderAndBlocks(summaries))

\* C11 (amended): the digest of two or more blocks is the header with the
\* number of channels followed by the blocks joined by a blank line, and
\* nothing after the last block (no footer); a single block is returned
\* unchanged, with no header.
C11_HeaderAndBlocksOnly ==
    (pc = "done" /\ summaries # <<>>)
    => IF Len(summaries) = 1
       THEN result.value = summaries[1]
       ELSE result.value = HeaderAndBlocks(summaries)

\* the call has returned the digest of two or more blocks
C11_Witness ==
    /\ pc = "done"
    /\ Len(summaries) >= 2
    /\ StartsWith(result.value, DigestHeader(Len(summaries)))

\* the index of the first message of channel ch in the list
FirstIndex(ms, ch) ==
    Min({i \in 1..Len(ms) : Msg(ms[i]).channel = ch} \cup {Len(ms) + 1})

\* where the title of the block of channel ch starts in the text, 0 if nowhere
TitleIndex(text, ch) ==
    LET hits == {i \in 1..Len(text) : StartsWithAt(text, i, BlockTitle \o Chars(ch) \o BOLD)}
    IN  IF hits = {} THEN 0 ELSE Min(hits)

\* the channels of the buckets that yielded a block, in bucket order
RECURSIVE ChannelsWithBlock(_)
ChannelsWithBlock(results) ==
    IF results = <<>> THEN <<>>
    ELSE (IF Head(results).outcome = "str" THEN <<Head(results).channel>> ELSE <<>>)
         \o ChannelsWithBlock(Tail(results))

\* C12: the buckets are in the order of their channels' first messages in
\* the time-sorted list, each bucket is handled in that order, and the digest
\* returned holds the blocks of the buckets that yielded one in that same
\* order (a bucket that yields none leaves the order of the others as it is).
C12_BlocksInFirstSeenOrder ==
    (pc \notin {"idle", "group"})
    => /\ \A a, b \in 1..Len(conversations) :
              a < b => FirstIndex(messages, conversations[a].channel_name)
                       < FirstIndex(messages, conversations[b].channel_name)
       /\ \A k \in 1..Len(chan_results) :
              chan_results[k].channel = conversations[k].channel_name
       /\ Len(summaries) = Len(ChannelsWithBlock(chan_results))
       /\ \A i \in 1..Len(summaries) :
              TitleIndex(summaries[i], ChannelsWithBlock(chan_results)[i]) = 1
       /\ (pc = "done" /\ summaries # <<>>)
          => LET chans == ChannelsWithBlock(chan_results)
             IN  /\ \A i \in 1..Len(chans) : TitleIndex(result.value, chans[i]) > 0
                 /\ \A i, j \in 1..Len(chans) :
                        i < j => TitleIndex(result.value, chans[i])
                                 < TitleIndex(result.value, chans[j])

\* three buckets in the order random, books, general; the middle one yielded
\* no block, and the digest holds the block of random before that of general
C12_Witness ==
    /\ pc = "done"
    /\ Len(conversations) = 3
    /\ conversations[1].channel_name = "random"
    /\ conversations[2].channel_name = "books"
    /\ chan_results[2].outcome = "None"
    /\ ChannelsWithBlock(chan_results) = <<"random", "general">>
    /\ TitleIndex(result.value, "random") < TitleIndex(result.value, "general")

\* the index of the next || marker of s at or after i, 0 if there is none
NextMarker(s, i) ==
    LET ms == {j \in i..(Len(s) - 1) : s[j] = "|" /\ s[j + 1] = "|"}
    IN  IF ms = {} THEN 0 ELSE Min(ms)

\* s from index i on, with the text between each pair of || markers (line
\* breaks included) replaced by other text
RECURSIVE OtherSpoilers(_, _)
OtherSpoilers(s, i) ==
    LET open == NextMarker(s, i)
        close == IF open = 0 THEN 0 ELSE NextMarker(s, open + 3)
    IN  IF close = 0
        THEN SubSeq(s, i, Len(s))
        ELSE SubSeq(s, i, open + 1) \o Chars("something else") \o Chars("||")
             \o OtherSpoilers(s, close + 2)

\* the message sequence that differs only in the text of its spoiler spans:
\* the lines it is prepared to
TwinLinesOf(id) ==
    LET clean == CleanText(OtherSpoilers(Msg(id).content, 1))
    IN  IF Len(Strip(clean)) < MinContentLen \/ StartsWith(clean, <<"!">>)
        THEN <<>>
        ELSE <<Msg(id).author \o Chars(": ") \o Strip(clean)>>

TwinPreparedLines == [id \in MsgIds |-> TwinLinesOf(id)]

RECURSIVE TwinConversationLines(_)
TwinConversationLines(ms) ==
    IF ms = <<>> THEN <<>>
    ELSE TwinPreparedLines[Head(ms)] \o TwinConversationLines(Tail(ms))

\* C13 (as stated): the text handed to the generation step is the same for
\* two message sequences that differ only in the text between paired ||
\* markers, spoiler text over several lines included: it holds
\* [SPOILER CONTENT] in place of each span and nothing of the span's text.
C13_SpoilerTextNeverObserved ==
    (conversation_text # <<>> /\ idx <= Len(conversations))
    => /\ conversation_text
          = Join(TwinConversationLines(conversations[idx].messages), <<"\n">>)
       /\ ~Contains(conversation_text, Chars("||"))

\* a bucket with a spoiler span over two lines has passed the gate, and the
\* text handed on holds the words of the span
C13_MultiLineSpoilerObserved ==
    /\ conversation_text # <<>>
    /\ idx <= Len(conversations)
    /\ 14 \in {conversations[idx].messages[k] : k \in 1..Len(conversations[idx].messages)}
    /\ Contains(conversation_text, Chars("the butler\ndid it"))

\* a bucket with a spoiler span on one line has passed the gate, and the
\* text handed on holds the placeholder and not the words of the span
C13_OneLineSpoilerHidden ==
    (conversation_text # <<>> /\ idx <= Len(conversations)
     /\ 7 \in {conversations[idx].messages[k] : k \in 1..Len(conversations[idx].messages)})
    => /\ Contains(conversation_text, SPOILER)
       /\ ~Contains(conversation_text, Chars("the butler did it"))

\* C14 (as stated): applying the decoration twice with the same participant
\* list gives exactly the text that applying it once gives.
C14_DecorationIdempotent ==
    (pc = "decorate" /\ idx = 2)
    => summary = FormatUsernamesWithColors(args.text, args.participants)

\* the inputs on which the second application undoes the first: the name
\* ends up with neither its glyph nor its emphasis markers
C14_SecondPassStripsName ==
    /\ pc = "decorate"
    /\ idx = 2
    /\ args.text = Chars("**bee!** said hi")
    /\ args.participants = <<Chars("bee!")>>
    /\ summary = Chars("bee! said hi")

PartFields(e) == SelectSeq(e.fields, IsPartField)

\* the embed shown has a lead block of at most 1903 characters, Part fields
\* of at most 1024 characters, and at most budget of them
WithinLimits(e, budget) ==
    /\ Len(e.description) <= DescriptionLimit + 3
    /\ \A k \in 1..Len(PartFields(e)) : Len(PartFields(e)[k].value) <= FieldValueLimit
    /\ Len(PartFields(e)) <= budget

C15_BudgetUsedUp ==
    /\ pc = "shown"
    /\ args.command = "summary"
    /\ Len(embed.description) = DescriptionLimit + 3
    /\ Len(PartFields(embed)) = FieldBudget
    /\ Len(SplitOn(summary, PARAGRAPH, 1)) > FieldBudget + 1

RangeOf(seq) == {seq[k] : k \in 1..Len(seq)}
Sent(what) == {k \in 1..Len(outbox) : outbox[k].what = what}
\* an ad-hoc command is running or has run, for a user allowed to run it
AdHocRunning ==
    /\ trigger.command \in AdHocCommands
    /\ Sent("denied") = {}
\* the messages of the command's channel that no bot wrote, created within
\* the last `hours` hours
WithinLast(hours) ==
    {id \in MsgIds : /\ Msg(id).channel = trigger.channel
                     /\ ~Msg(id).bot
                     /\ Msg(id).created_at > trigger.now - hours
                     /\ Msg(id).created_at <= trigger.now}

\* C16 (as stated): an ad-hoc command collects from now minus
\* min(hours, 168) hours on, whatever hours value the caller gives: a request
\* with hours > 168 is not turned away and is summarised over the last 168
\* hours.
C16_LookbackClamped ==
    AdHocRunning
    => LET window == IF trigger.hours > HoursLimit THEN HoursLimit ELSE trigger.hours
       IN  /\ Sent("refused") = {}
           /\ WithinLast(window) # {}
              => pc # "off" /\ RangeOf(messages) = WithinLast(window)

\* C16 (amended): an ad-hoc command with hours > 168 is refused with a
\* notice: it collects nothing and summarize_conversations is not called.
\* With hours <= 168 it collects the messages created after now minus hours
\* (nothing is clamped), and tells the user when there are none.  So no
\* message that is 168 hours old or older is ever collected.
C16_LookbackRefusedOverLimit ==
    AdHocRunning
    => /\ IF trigger.hours > HoursLimit
          THEN /\ hpc = "done"
               /\ outbox = << Event(trigger.guild, "reply", "refused", "none") >>
               /\ pc = "off"
               /\ messages = <<>>
          ELSE /\ Sent("refused") = {}
               /\ IF WithinLast(trigger.hours) = {}
                  THEN pc = "off" /\ messages = <<>> /\ Sent("no_messages") # {}
                  ELSE pc # "off" /\ RangeOf(messages) = WithinLast(trigger.hours)
       /\ \A id \in RangeOf(messages) : trigger.now - Msg(id).created_at < HoursLimit

\* a command called with hours = 168 when the oldest messages of the
\* channel are 168 hours old or older: only the younger ones are handed on
C16_Witness ==
    /\ AdHocRunning
    /\ trigger.hours = HoursLimit
    /\ trigger.now = 172
    /\ pc = "idle"
    /\ messages # <<>>
    /\ \E id \in MsgIds : /\ Msg(id).channel = trigger.channel
                          /\ ~Msg(id).bot
                          /\ trigger.now - Msg(id).created_at >= HoursLimit
                          /\ id \notin RangeOf(messages)

\* C17: whichever trigger runs (the daily job, test mode, /daily and the
\* ad-hoc commands), the list handed to summarize_conversations holds no
\* message written by a bot.
C17_NoBotMessageHandedOver ==
    \A k \in 1..Len(messages) : ~Msg(messages[k]).bot

\* the daily job has handed over the messages of a guild whose monitored
\* channel also holds a bot's message of that day
C17_Witness ==
    /\ trigger.command = "daily_job"
    /\ pc = "idle"
    /\ 3 \in RangeOf(messages)
    /\ Msg(16).bot /\ Msg(16).channel = Msg(3).channel
    /\ Msg(16).created_at = Msg(3).created_at
    /\ 16 \notin RangeOf(messages)

\* a failed post to the summary channel, or a DM to the test user refused
\* for lack of permission
CaughtAtDelivery(e) ==
    \/ e.to = "summary_channel" /\ e.error # "none"
    \/ e.to = "test_user" /\ e.error = "forbidden"

\* C18: a failed post to the summary channel and a permission failure of the
\* DM to the test user do not come out of post_summary / send_test_summary
\* (generate_guild_summary returns normally), and the daily job handles every
\* guild, whatever happened for the guilds before.
C18_DeliveryFailureCaught ==
    /\ \A i \in 1..Len(outbox) :
          CaughtAtDelivery(outbox[i])
          => /\ (i = Len(outbox) => hpc # "raised")
             /\ \A k \in 1..Len(log) :
                   log[k].guild = outbox[i].guild => log[k].outcome = "returned"
    /\ trigger.command = "daily_job"
       => /\ hpc \in {"guild", "summarize", "returned", "raised"} => Len(log) = job - 1
          /\ hpc = "done" => Len(log) = NumGuilds
          /\ \A k \in 1..Len(log) : log[k].guild = k

\* the daily job has ended: the post failed for the first guild and the
\* digest of the second guild was posted
C18_Witness ==
    /\ trigger.command = "daily_job"
    /\ hpc = "done"
    /\ \E i, j \in 1..Len(outbox) :
          /\ outbox[i] = Event(1, "summary_channel", "digest", "forbidden")
          /\ outbox[j] = Event(2, "summary_channel", "digest", "none")

\* C19 (as stated): when the delivery of a digest a user asked for fails,
\* the user gets a failure notice and no success confirmation, /daily
\* included.
C19_FailedDeliveryIsReported ==
    (trigger.command \in AdHocCommands \cup {"daily"} /\ hpc = "done"
     /\ \E i \in Sent("digest") : outbox[i].error # "none")
    => /\ Sent("failure") # {}
       /\ Sent("confirmation") = {}

\* /daily has ended with a confirmation although the post to the summary
\* channel failed
C19_DailyConfirmsFailedPost ==
    /\ trigger.command = "daily"
    /\ hpc = "done"
    /\ \E i \in Sent("digest") :
          outbox[i].to = "summary_channel" /\ outbox[i].error = "forbidden"
    /\ outbox[Len(outbox)].what = "confirmation"

\* what holds: the ad-hoc commands report every failed delivery
C19_AdHocFailureIsReported ==
    (trigger.command \in AdHocCommands /\ hpc = "done"
     /\ \E i \in Sent("digest") : outbox[i].error # "none")
    => /\ Sent("failure") # {}
       /\ Sent("confirmation") = {}

\* C20 (as stated): while test mode is enabled for a guild, no digest of
\* that guild is posted to its summary channel.
C20_TestModeNeverPostsToChannel ==
    \A i \in 1..Len(outbox) :
        outbox[i].to = "summary_channel" => ~guild_configs[outbox[i].guild].test_mode

\* the digest of a guild in test mode has been posted to the summary channel
C20_TestModeDigestPosted ==
    /\ hpc = "returned"
    /\ job \in Guilds
    /\ outbox # <<>>
    /\ guild_configs[job].test_mode
    /\ guild_configs[job].test_user_id = Admin
    /\ outbox[Len(outbox)] = Event(job, "summary_channel", "digest", "none")

\* C21: summarize_conversations leaves the caller's message list as it was:
\* after the call the list holds the same elements in the same order, so no
\* step of the call changes `messages`.
C21_InputListUnchanged == [][messages' = messages]_vars

\* the embed on display was chunked from `summary` by one of the commands
\* that chunk (all but /summy)
ChunkedEmbedShown ==
    /\ embed # NoEmbed
    /\ args.command # "summy"
    /\ Len(summary) > DescriptionLimit
FirstParagraph == SplitOn(summary, PARAGRAPH, 1)[1]

\* C22: when an oversized summary is chunked, the lead block carries the
\* ellipsis marker only if the first paragraph itself exceeds the lead limit
\* and was cut; a first paragraph that fits is shown in full, without marker.
C22_EllipsisOnlyWhenTruncated ==
    ChunkedEmbedShown =>
        embed.description = IF Len(FirstParagraph) > DescriptionLimit
                            THEN Take(FirstParagraph, DescriptionLimit) \o ELLIPSIS
                            ELSE FirstParagraph
\* what the code does: the marker follows the lead block of every chunked
\* summary
C22_EllipsisAlwaysAppended ==
    ChunkedEmbedShown =>
        embed.description = Take(FirstParagraph, DescriptionLimit) \o ELLIPSIS
C22_ShortLeadChunked ==
    /\ ChunkedEmbedShown
    /\ Len(FirstParagraph) <= DescriptionLimit

\* the budget of the rendering on display
BudgetShown == IF idx = 0 THEN FieldBudget ELSE EditFieldBudget
\* the members of a set of numbers in increasing order
Ascending(S) ==
    [n \in 1..Cardinality(S) |-> CHOOSE k \in S : Cardinality({j \in S : j < k}) = n - 1]
\* the sub-blocks that show the paragraphs numbered in `kept` (counted after
\* the first paragraph), in their original order, labeled "Part k+1"
SubBlocks(parts, kept) ==
    LET order == Ascending(kept)
    IN  [n \in 1..Len(order) |-> Field(PartName(order[n] + 1), parts[order[n]])]

\* C23 (as stated): the paragraphs after the first are emitted as labeled
\* sub-blocks in their original order, and a paragraph is left out only when
\* the sub-block budget is already used up.
C23_DroppedOnlyBeyondBudget ==
    ChunkedEmbedShown =>
        LET parts == Tail(SplitOn(summary, PARAGRAPH, 1))
        IN  PartFields(embed) = SubBlocks(parts, {k \in 1..Len(parts) : k <= BudgetShown})

\* C23 (amended): the sub-blocks are in the original order, and a paragraph
\* after the first is left out exactly when it has 1024 characters or more
\* or the budget is already used up by the shorter paragraphs before it.
C23_DroppedBeyondBudgetOrTooLong ==
    ChunkedEmbedShown =>
        LET parts == Tail(SplitOn(summary, PARAGRAPH, 1))
            fits == {k \in 1..Len(parts) : Len(parts[k]) < FieldValueLimit}
        IN  PartFields(embed) =
                SubBlocks(parts, {k \in fits :
                                    Cardinality({j \in fits : j < k}) < BudgetShown})

\* /summary has rendered a lead of 1901 characters followed by paragraphs of
\* 1024 and 5 characters: the first is left out inside the budget, the
\* second is on display as "Part 3"
C23_Witness ==
    /\ pc = "shown"
    /\ args.command = "summary"
    /\ summary = TextOf(<<1901, 1024, 5>>)
    /\ PartFields(embed) = <<Field(PartName(3), Filler(5))>>

NotSkipped(id) == ~Skipped(id)
\* the messages of the bucket in hand that _prepare_conversation_text retains
RetainedMessages == SelectSeq(conversations[idx].messages, NotSkipped)

\* C24: the prepared text holds exactly one line "<display_name>: <text>"
\* for each retained message of the bucket, in the bucket's order, and no
\* other line; so the lines the extractive fallback counts are as many as
\* the retained messages.
C24_OneLinePerRetainedMessage ==
    pc = "extractive" =>
        LET lines == Split(conversation_text, "\n")
        IN  /\ Len(lines) = Len(RetainedMessages)
            /\ \A k \in 1..Len(lines) : lines[k] = ConversationLine(RetainedMessages[k])
\* the fallback is handed a text with more lines than retained messages
C24_MoreLinesThanMessages ==
    /\ pc = "extractive"
    /\ Len(Split(conversation_text, "\n")) > Len(RetainedMessages)
\* the fallback is handed a text of messages with no line break: one line each
C24_SingleLineMessages ==
    /\ pc = "extractive"
    /\ Len(Split(conversation_text, "\n")) = Len(RetainedMessages)

BackendCalls == {k \in 1..Len(calls) : calls[k].strategy \in {"remote", "local"}}
PendingCalls == {k \in 1..Len(calls) : calls[k].outcome = "pending"}

\* C25: within one invocation the buckets are summarized one after another:
\* a backend call is issued only after every earlier call has returned or
\* failed, the calls follow the order of the buckets, and so at most one
\* remote or local call is in flight at any time.
C25_OneCallInFlight ==
    /\ Cardinality(PendingCalls) <= 1
    /\ \A k \in PendingCalls : k = Len(calls)
    /\ (inflight # NoRequest) <=> (PendingCalls # {})
    /\ \A j, k \in BackendCalls :
          j < k => BucketIndex(conversations, calls[j].channel)
                     <= BucketIndex(conversations, calls[k].channel)
\* the call for the second bucket is in flight, the calls for the first
\* bucket have all ended
C25_Witness ==
    /\ pc \in {"await_remote", "await_local"}
    /\ idx = 2
    /\ PendingCalls = {Len(calls)}
    /\ \E j \in BackendCalls :
          /\ calls[j].channel = conversations[1].channel_name
          /\ calls[j].outcome \in {"returned", "raised"}

(***************************************************************************)
(* _summarize_with_transformers on long prepared texts: the local model is *)
(* the only backend, and the bucket in hand has a text of numbered lines.  *)
(***************************************************************************)
MaxLines == 30
MaxLineLen == 120

\* "<i>: aaa..." with `len` letters
NumberedLine(i, len) == DecStr(i) \o Chars(": ") \o Filler(len)
LineCounts == {1, 20, 21, 25, MaxLines}
LineLengths == {10, 40, 41, 60, MaxLineLen}
ExcerptTexts ==
    {Join([i \in 1..n |-> NumberedLine(i, len)], <<"\n">>) :
        n \in LineCounts, len \in LineLengths}

InitExcerpt ==
    /\ openai_client = FALSE
    /\ local_summarizer = TRUE
    /\ messages = <<>>
    /\ custom_prompt = <<>>
    /\ pc = "local"
    /\ conversations = <<[channel_name |-> Chars("general"), messages |-> <<>>,
                          participants |-> {}]>>
    /\ idx = 1
    /\ conversation_text \in ExcerptTexts
    /\ summary = <<>>
    /\ summaries = <<>>
    /\ inflight = NoRequest
    /\ calls = <<>>
    /\ chan_results = <<>>
    /\ result = Pending
    /\ HostIdle

NextExcerpt ==
    \/ LocalCall
    \/ \E outcome \in LocalOutcomes : LocalReturn(outcome)

SpecExcerpt == InitExcerpt /\ [][NextExcerpt]_vars

LocalPrefix == Chars("Conversation summary: ")
\* the excerpt that was handed to the local model
ExcerptSent == Drop(inflight.text, Len(LocalPrefix))
LongTextSent == inflight.backend = "local" /\ Len(conversation_text) > LocalMaxLength
\* lines 3 of the first 40%, 2 of the middle 20% and the last 3 of the last
\* 40% of the lines, in their original order
SampledInOrder(lines) ==
    LET n == Len(lines)
        a == (n * 4) \div 10
        b == (n * 6) \div 10
    IN  Join(<<lines[1], lines[2], lines[3], lines[a + 1], lines[a + 2],
               lines[n - 2], lines[n - 1], lines[n]>>, <<"\n">>)

\* C26: for every prepared text of more than 800 characters, whatever the
\* number and length of its lines, the excerpt handed to the local model
\* has at most 800 characters plus the ellipsis; and when lines are sampled
\* they come in original order from the first 40%, the middle 20% and the
\* last 40% of the lines.
C26_ExcerptBounded ==
    LongTextSent =>
        /\ Len(ExcerptSent) <= LocalMaxLength + 3
        /\ LET lines == Split(conversation_text, "\n")
           IN  Len(lines) > LocalSampleLines => ExcerptSent = SampledInOrder(lines)
\* what holds: the sampled lines are as described, and the excerpt cut from
\* a text of at most 20 lines is bounded
C26_SampledOrCut ==
    LongTextSent =>
        LET lines == Split(conversation_text, "\n")
        IN  IF Len(lines) > LocalSampleLines
            THEN ExcerptSent = SampledInOrder(lines)
            ELSE ExcerptSent = Take(conversation_text, LocalMaxLength) \o ELLIPSIS
\* eight sampled lines that together exceed the bound
C26_SampleOverBound ==
    /\ LongTextSent
    /\ Len(Split(conversation_text, "\n")) > LocalSampleLines
    /\ Len(ExcerptSent) > LocalMaxLength + 3

\* the blocks of the buckets that got a summary, in the order of the buckets
RECURSIVE BlocksOf(_)
BlocksOf(results) ==
    IF results = <<>> THEN <<>>
    ELSE (IF Head(results).outcome = "str" THEN <<Head(results).value>> ELSE <<>>)
         \o BlocksOf(Tail(results))
RaisedBuckets == {k \in 1..Len(chan_results) : chan_results[k].outcome = "raised"}

\* C27: a bucket whose summarizing raises is skipped, and only that one:
\* when summarize_conversations returns, every bucket has been handled in
\* order, and the digest is built from the blocks of all the buckets that
\* passed the gate and got a non-empty summary, in the order of the buckets,
\* whichever other buckets raised.
C27_FailureSkipsOnlyThatChannel ==
    /\ summaries = BlocksOf(chan_results)
    /\ \A k \in 1..Len(chan_results) :
          chan_results[k].channel = conversations[k].channel_name
    /\ (pc = "done" /\ messages # <<>>) =>
          /\ Len(chan_results) = Len(conversations)
          /\ result.value = IF BlocksOf(chan_results) = <<>> THEN NO_SIGNIFICANT
                            ELSE CombineSummaries(BlocksOf(chan_results))
\* the call has returned; the first bucket raised, a later bucket got a
\* summary and its block is the digest
C27_Witness ==
    /\ pc = "done"
    /\ 1 \in RaisedBuckets
    /\ \E k \in 2..Len(chan_results) :
          /\ chan_results[k].outcome = "str"
          /\ result.value = chan_results[k].value

StatsFields(e) == {k \in 1..Len(e.fields) : e.fields[k].name = StatsName}

\* C28: after any sequence of edits of a summary preview, with texts shorter
\* or longer than 1900 characters, the preview embed has exactly one Stats
\* field.
C28_ExactlyOneStatsField ==
    pc = "preview" => Cardinality(StatsFields(embed)) = 1
\* what holds: an edit with a text over 1900 characters leaves one Stats
\* field, an edit with a shorter text adds one to those on display
C28_ShortEditAddsStatsField ==
    [][(pc = "preview" /\ idx' = idx + 1) =>
          Cardinality(StatsFields(embed')) =
              IF Len(summary') > DescriptionLimit THEN 1
              ELSE Cardinality(StatsFields(embed)) + 1]_vars
\* two edits with short texts: three Stats fields
C28_ThreeStatsFields ==
    /\ pc = "preview"
    /\ idx = 2
    /\ Cardinality(StatsFields(embed)) = 3

(***************************************************************************)
(* SummaryDestinationView: the buttons of one preview.  Each press is      *)
(* handled by a task of its own, which gives way at every await; SpecHost  *)
(* takes a handler as one step, here its awaits are separate steps.  The   *)
(* view keeps no record of a press: nothing in the handlers tells whether  *)
(* the summary was sent or the preview cancelled.  hpc is "preview" while  *)
(* the message shows the buttons.                                          *)
(***************************************************************************)
MaxPresses == 3

Buttons == {"send_to_channel", "send_to_dms", "cancel", "edit_summary"}
PreviewTexts == {TextOf(<<20>>), TextOf(<<1901, 5>>)}
ModalTexts == {TextOf(<<30>>)}

InitPreview ==
    /\ openai_client = FALSE
    /\ local_summarizer = FALSE
    /\ messages = <<1, 2, 3>>
    /\ custom_prompt = <<>>
    /\ pc = "done"
    /\ conversations = <<>>
    /\ idx = 0
    /\ conversation_text = <<>>
    /\ summary = <<>>
    /\ summaries = <<>>
    /\ inflight = NoRequest
    /\ calls = <<>>
    /\ chan_results = <<>>
    /\ \E text \in PreviewTexts :
          /\ result = [state |-> "returned", value |-> text]
          /\ embed = PreviewEmbed(text, 24, Len(messages))
    /\ args = <<>>
    /\ guild_configs = [g \in Guilds |-> Configured]
    /\ trigger = [command |-> "preview_summary", guild |-> 1, channel |-> "general",
                  hours |-> 24, now |-> 8, question |-> <<>>]
    /\ hpc = "preview"
    /\ dest = "preview"
    /\ outbox = <<Event(1, "reply", "preview", "none")>>
    /\ job = 1
    /\ log = <<>>
    /\ handlers = <<>>

RemoveAt(seq, i) == SubSeq(seq, 1, i - 1) \o SubSeq(seq, i + 1, Len(seq))
\* every handler ends with one reply to its interaction
Presses == Len(handlers) + Cardinality({k \in 1..Len(outbox) : outbox[k].to = "reply"}) - 1

\* a button of the message is pressed: its handler runs up to its first await
ButtonPress(button) ==
    /\ hpc = "preview"
    /\ Presses < MaxPresses
    /\ handlers' = Append(handlers,
          [button |-> button,
           at |-> CASE button \in {"send_to_channel", "send_to_dms"} -> "send"
                    [] button = "cancel" -> "edit_message"
                    [] button = "edit_summary" -> "send_modal"])
    /\ UNCHANGED <<coreVars, args, embed, guild_configs, trigger, hpc, dest, outbox, job, log>>

\* lines 497 and 546: self.channel.send / interaction.user.send returns or
\* raises
SendReturn(i, outcome) ==
    /\ handlers[i].at = "send"
    /\ outbox' = Append(outbox,
                        Event(job, IF handlers[i].button = "send_to_channel"
                                   THEN "channel" ELSE "user_dm",
                              "digest", outcome))
    /\ handlers' = [handlers EXCEPT ![i].at = IF outcome = "none" THEN "edit_message"
                                              ELSE "send_message"]
    /\ UNCHANGED <<coreVars, args, embed, guild_configs, trigger, hpc, dest, job, log>>

\* the modal opened by edit_summary is submitted: on_submit, lines 603-609
ModalSubmit(i, new_text) ==
    /\ handlers[i].at = "send_modal"
    /\ embed' = UpdateEmbedWithText(embed, new_text, trigger.hours, Len(messages))
    /\ handlers' = [handlers EXCEPT ![i].at = "edit_message"]
    /\ UNCHANGED <<coreVars, args, guild_configs, trigger, hpc, dest, outbox, job, log>>

\* interaction.response.edit_message returns or raises: lines 500-504,
\* 549-553 and 568-572 take the embed and the buttons off the message, line
\* 612 puts the edited embed and the buttons on it.  What it raises is
\* caught at lines 506, 557 and 614; cancel has no try.
EditMessageReturn(i, outcome) ==
    /\ handlers[i].at = "edit_message"
    /\ LET button == handlers[i].button
           what == CASE button = "cancel" -> "cancelled"
                     [] button = "edit_summary" -> "edited"
                     [] OTHER -> "confirmation"
       IN  IF outcome = "none"
           THEN /\ outbox' = Append(outbox, Event(job, "reply", what, "none"))
                /\ handlers' = RemoveAt(handlers, i)
                /\ hpc' = IF button = "edit_summary" THEN "preview" ELSE "done"
           ELSE IF button = "cancel"
           THEN /\ outbox' = Append(outbox, Event(job, "reply", what, outcome))
                /\ handlers' = RemoveAt(handlers, i)
                /\ hpc' = hpc
           ELSE /\ outbox' = outbox
                /\ handlers' = [handlers EXCEPT ![i].at = "send_message"]
                /\ hpc' = hpc
    /\ UNCHANGED <<coreVars, args, embed, guild_configs, trigger, dest, job, log>>

\* lines 508, 556, 559 and 616: the failure notice
SendMessageReturn(i) ==
    /\ handlers[i].at = "send_message"
    /\ outbox' = Append(outbox, Event(job, "reply", "failure", "none"))
    /\ handlers' = RemoveAt(handlers, i)
    /\ UNCHANGED <<coreVars, args, embed, guild_configs, trigger, hpc, dest, job, log>>

NextPreview ==
    \/ \E button \in Buttons : ButtonPress(button)
    \/ \E i \in DOMAIN handlers, outcome \in SendOutcomes : SendReturn(i, outcome)
    \/ \E i \in DOMAIN handlers, new_text \in ModalTexts : ModalSubmit(i, new_text)
    \/ \E i \in DOMAIN handlers, outcome \in {"none", "http_error"} :
          EditMessageReturn(i, outcome)
    \/ \E i \in DOMAIN handlers : SendMessageReturn(i)

SpecPreview == InitPreview /\ [][NextPreview]_vars

Delivered == {k \in 1..Len(outbox) : outbox[k].what = "digest" /\ outbox[k].error = "none"}
\* the replies that told the user the summary was sent or the preview cancelled
Closed ==
    {k \in 1..Len(outbox) : /\ outbox[k].what \in {"confirmation", "cancelled"}
                            /\ outbox[k].error = "none"}

\* C29: for one preview, over every sequence and interleaving of button
\* presses, the summary is delivered at most once, and it is never
\* delivered after the preview was cancelled or already sent.
C29_DeliveredAtMostOnce ==
    /\ Cardinality(Delivered) <= 1
    /\ \A d \in Delivered, c \in Closed : d < c
\* Send to Channel pressed twice before the first handler has taken the
\* buttons off: two deliveries to the channel
C29_DeliveredTwice ==
    /\ Cardinality({k \in Delivered : outbox[k].to = "channel"}) = 2
    /\ \A k \in 1..Len(outbox) : outbox[k].what # "edited"
\* a delivery after the preview was cancelled
C29_DeliveredAfterCancel ==
    \E d \in Delivered, c \in Closed : outbox[c].what = "cancelled" /\ c < d
\* one press, one delivery, one confirmation
C29_SinglePress ==
    /\ Presses = 1
    /\ handlers = <<>>
    /\ hpc = "done"
    /\ Cardinality(Delivered) = 1

(***************************************************************************)
(* Config: the store of data/guild_configs.json, from an empty store.      *)
(* Every operation builds a Config of its own, which loads the file, and   *)
(* set_guild_config writes it back; guild_configs is the content of the    *)
(* file (reads and writes of the file are taken to succeed).  The          *)
(* operations have no await: each is one step.  log holds the operations   *)
(* called, in order.                                                       *)
(***************************************************************************)
MaxOps == 4

ConfigChannels == {"general", "random"}
Operation(op, g, ch) == [op |-> op, guild |-> g, channel |-> ch]

InitConfig ==
    /\ openai_client = FALSE
    /\ local_summarizer = FALSE
    /\ messages = <<>>
    /\ custom_prompt = <<>>
    /\ pc = "off"
    /\ conversations = <<>>
    /\ idx = 0
    /\ conversation_text = <<>>
    /\ summary = <<>>
    /\ summaries = <<>>
    /\ inflight = NoRequest
    /\ calls = <<>>
    /\ chan_results = <<>>
    /\ result = Pending
    /\ args = <<>>
    /\ embed = NoEmbed
    /\ guild_configs = [g \in Guilds |-> NoConfig]
    /\ trigger = NoTrigger
    /\ hpc = "idle"
    /\ dest = "none"
    /\ outbox = <<>>
    /\ job = 0
    /\ log = <<>>
    /\ handlers = <<>>

\* lines 67-70 and 87-90: cls.get_guild_config(guild_id) or a new config
GetOrNewConfig(g) ==
    IF guild_configs[g].exists THEN guild_configs[g]
    ELSE [NoConfig EXCEPT !.exists = TRUE]

\* x in list
InList(list, x) == \E k \in 1..Len(list) : list[k] = x

\* list.remove(x): the first x is taken out
RemoveFirst(list, x) ==
    LET k == Min({j \in 1..Len(list) : list[j] = x})
    IN  SubSeq(list, 1, k - 1) \o SubSeq(list, k + 1, Len(list))

\* a variant of add_monitored_channel without the test of line 72
AddMonitoredChannelAlways(g, ch) ==
    /\ Len(log) < MaxOps
    /\ guild_configs' =
          [guild_configs EXCEPT ![g] =
              [GetOrNewConfig(g) EXCEPT !.monitored_channels = Append(@, ch)]]
    /\ log' = Append(log, Operation("add", g, ch))
    /\ UNCHANGED <<coreVars, args, handlers, embed, trigger, hpc, dest, outbox, job>>

\* Config.add_monitored_channel, lines 64-74
AddMonitoredChannel(g, ch) ==
    /\ Len(log) < MaxOps
    /\ guild_configs' =
          IF InList(GetOrNewConfig(g).monitored_channels, ch)
          THEN guild_configs
          ELSE [guild_configs EXCEPT ![g] =
                  [GetOrNewConfig(g) EXCEPT !.monitored_channels = Append(@, ch)]]
    /\ log' = Append(log, Operation("add", g, ch))
    /\ UNCHANGED <<coreVars, args, handlers, embed, trigger, hpc, dest, outbox, job>>

\* Config.remove_monitored_channel, lines 76-82
RemoveMonitoredChannel(g, ch) ==
    /\ Len(log) < MaxOps
    /\ guild_configs' =
          IF guild_configs[g].exists /\ InList(guild_configs[g].monitored_channels, ch)
          THEN [guild_configs EXCEPT ![g].monitored_channels = RemoveFirst(@, ch)]
          ELSE guild_configs
    /\ log' = Append(log, Operation("remove", g, ch))
    /\ UNCHANGED <<coreVars, args, handlers, embed, trigger, hpc, dest, outbox, job>>

\* Config.set_summary_channel, lines 84-93
SetSummaryChannel(g, ch) ==
    /\ Len(log) < MaxOps
    /\ guild_configs' =
          [guild_configs EXCEPT ![g] = [GetOrNewConfig(g) EXCEPT !.summary_channel = TRUE]]
    /\ log' = Append(log, Operation("set_summary_channel", g, ch))
    /\ UNCHANGED <<coreVars, args, handlers, embed, trigger, hpc, dest, outbox, job>>

NextConfig ==
    \/ \E g \in Guilds, ch \in ConfigChannels : AddMonitoredChannel(g, ch)
    \/ \E g \in Guilds, ch \in ConfigChannels : RemoveMonitoredChannel(g, ch)
    \/ \E g \in Guilds, ch \in ConfigChannels : SetSummaryChannel(g, ch)
    \/ \E g \in Guilds, enabled \in BOOLEAN : ConfigTestMode(g, enabled)

SpecConfig == InitConfig /\ [][NextConfig]_vars

MonitoredChannelsOf(g) == guild_configs[g].monitored_channels
\* the adds and removes of channel ch called for guild g
AddsAndRemoves(g, ch) ==
    {k \in 1..Len(log) : /\ log[k].guild = g
                         /\ log[k].channel = ch
                         /\ log[k].op \in {"add", "remove"}}
LastAddNotRemoved(g, ch) ==
    /\ AddsAndRemoves(g, ch) # {}
    /\ log[Max(AddsAndRemoves(g, ch))].op = "add"

\* C30: from an empty store, after any sequence of add_monitored_channel,
\* remove_monitored_channel, set_summary_channel and test_mode operations on
\* any guilds, the monitored_channels list of each guild has no duplicate,
\* holds a channel exactly when its last add was not followed by a remove,
\* and changes only in an add or a remove for that very guild.
C30_MonitoredListFollowsAddsAndRemoves ==
    /\ [](\A g \in Guilds :
            /\ \A j, k \in 1..Len(MonitoredChannelsOf(g)) :
                  MonitoredChannelsOf(g)[j] = MonitoredChannelsOf(g)[k] => j = k
            /\ \A ch \in ConfigChannels :
                  InList(MonitoredChannelsOf(g), ch) <=> LastAddNotRemoved(g, ch))
    /\ [][\A g \in Guilds :
            MonitoredChannelsOf(g)' # MonitoredChannelsOf(g) =>
                /\ Len(log') = Len(log) + 1
                /\ log'[Len(log')].guild = g
                /\ log'[Len(log')].op \in {"add", "remove"}]_vars
\* guild 1: a channel added, removed and added again, another channel
\* added twice, while guild 2 got a summary channel and test mode
C30_Witness ==
    /\ log = << Operation("add", 1, "general"), Operation("remove", 1, "general"),
                Operation("add", 1, "general"), Operation("add", 1, "general") >>
    /\ MonitoredChannelsOf(1) = <<"general">>
    /\ guild_configs[2].test_mode
    /\ MonitoredChannelsOf(2) = <<>>

====
